---- MODULE Spec2Model ----
(***************************************************************************)
(* Model of the Dynamic Airflow Balancing engine of smarter-flair-vents:   *)
(* the minimum-airflow redistribution of dab.py and the HVAC cycle state   *)
(* machine and adjustment gate of coordinator.py.                          *)
(*                                                                         *)
(* Temperatures are integers in tenths of a degree Celsius.  Open          *)
(* percents inside adjust_for_minimum_airflow are exact rationals: every   *)
(* value of one call is an integer multiple of 1/Scale(temps), see Scale.  *)
(***************************************************************************)
EXTENDS Integers, Sequences, FiniteSets, TLC

VARIABLES
    \* --- calls of adjust_for_minimum_airflow (dab.py) ---
    af_mode,      \* hvac_mode argument
    af_temps,     \* rate_and_temp_per_vent_id: sequence of room temps (tenths)
    af_input,     \* calculated_percent_open on entry (percent, integers)
    af_conv,      \* additional_standard_vents argument
    af_result,    \* returned record, or NoResult before the call
    af_pc,        \* "ready" before the call, "done" after it
    \* --- calls of the other functions of dab.py ---
    dab_call,     \* [fn, args, result, done] of the call
    \* --- environment of the coordinator ---
    now,                  \* datetime.now(timezone.utc), in seconds
    hvac,                 \* per thermostat: what _resolve_hvac_action sees
    target_temp,          \* per thermostat: setpoint attribute (tenths) or None
    unloaded,             \* async_unload_entry has called async_shutdown
    ticks,                \* number of steps of the clock so far
    initial_efficiency_percent, \* _initial_efficiency_percent (entry.options)
    \* --- FlairCoordinator fields (coordinator.py:72-94) ---
    data,                 \* self.data: snapshot of the last completed refresh
    last_hvac_action,     \* _last_hvac_action
    dab_state,            \* _dab_state: the CycleState of each thermostat
    cycle_stats,          \* _cycle_stats
    vent_starting_temps,  \* _vent_starting_temps
    vent_starting_open,   \* _vent_starting_open
    vent_last_commanded,  \* _vent_last_commanded
    vent_last_target,     \* _vent_last_target
    pending_finalize,     \* _pending_finalize: thermostats with a task handle
    vent_rates,           \* _vent_rates (micro-degrees per minute)
    max_rates,            \* _max_rates
    max_running_minutes,  \* _max_running_minutes (rational, in minutes)
    vent_models,          \* _vent_models: regression sums
    strategy_metrics,     \* _strategy_metrics
    store,                \* content of the persistent Store
    unsub_thermostat_listeners, \* _unsub_thermostat_listeners is non-empty
    \* --- tasks and calls in flight ---
    tasks,                \* finalize_task coroutines, per thermostat and slot
    poll,                 \* the running _async_update_data, if any
    api_calls,            \* async_set_vent_position calls of the latest poll
    saves,                \* _async_save_state calls in flight and _save_lock
    flair_api,            \* the FlairApi client: token, _auth_lock, requests
    cover,                \* the FlairVentCover entity of one vent (cover.py)
    dab_enabled,          \* entry.options[CONF_DAB_ENABLED]
    direct,               \* a pass outside a poll (run_dab, pre-adjust), _pre_adjust_flags
    \* --- history (not program state) ---
    cycle_no,             \* number of cycles started per thermostat
    start_temp_cycle,     \* cycle in which vent_starting_temps[v] was captured
    start_open_cycle,     \* cycle in which vent_starting_open[v] was captured
    polls,                \* number of _async_update_data runs so far
    empty_finalizes       \* thermostats a finalize of which found no CycleState

af_vars == <<af_mode, af_temps, af_input, af_conv, af_result, af_pc, dab_call>>

env_vars == <<now, hvac, target_temp, unloaded, ticks, initial_efficiency_percent>>

coord_vars == <<data, last_hvac_action, dab_state, cycle_stats, vent_starting_temps,
                vent_starting_open, vent_last_commanded, vent_last_target,
                pending_finalize, vent_rates, max_rates, max_running_minutes,
                vent_models, strategy_metrics, store, unsub_thermostat_listeners,
                tasks, poll, api_calls, saves, flair_api, cover, dab_enabled, direct,
                cycle_no, start_temp_cycle, start_open_cycle, polls, empty_finalizes>>

vars == <<af_vars, env_vars, coord_vars>>

(***************************************************************************)
(* Bounds of the model.                                                    *)
(***************************************************************************)
MaxManagedVents == 4
\* _async_request calls under way at once, and tokens the server issues
MaxRequests == 2
MaxTokens == 2
\* _async_save_state calls in flight at once
MaxSavers == 3
MaxConventional == 1
TempChoices == {150, 300}
TargetChoices == {0, 99, 100}

(***************************************************************************)
(* DabSettings (dab.py:8-30).                                              *)
(***************************************************************************)
min_combined_vent_flow == 30
standard_vent_default_open == 50
max_iterations == 500
\* increment_percentage is 1.5: twice its value
increment_percentage_x2 == 3
\* temp_boundary_adjustment is 0.1 degree: one tenth
temp_boundary_adjustment == 1

NoResult == [targets |-> <<>>, iterations |-> -1]

Modes == {"cooling", "heating"}

\* ------------------------------------------------------------------------
\* adjust_for_minimum_airflow (dab.py:214-268)

RECURSIVE SeqSum(_)
SeqSum(s) == IF s = <<>> THEN 0 ELSE Head(s) + SeqSum(Tail(s))

RECURSIVE SeqMin(_)
SeqMin(s) == IF Len(s) = 1 THEN s[1]
             ELSE LET m == SeqMin(Tail(s)) IN IF Head(s) < m THEN Head(s) ELSE m

RECURSIVE SeqMax(_)
SeqMax(s) == IF Len(s) = 1 THEN s[1]
             ELSE LET m == SeqMax(Tail(s)) IN IF Head(s) > m THEN Head(s) ELSE m

\* min_temp and max_temp of dab.py:231-237 (tenths of a degree)
min_temp(temps) == IF temps = <<>> THEN 200 ELSE SeqMin(temps) - temp_boundary_adjustment
max_temp(temps) == IF temps = <<>> THEN 250 ELSE SeqMax(temps) + temp_boundary_adjustment

\* Every percent handled by one call is a multiple of 1/Scale: an increment
\* is 1.5 * (a / (max_temp - min_temp)) = 3a / (2 * (max_temp - min_temp)).
Scale(temps) == IF max_temp(temps) = min_temp(temps) THEN 2
                ELSE 2 * (max_temp(temps) - min_temp(temps))

\* increment = increment_percentage * proportion, in units of 1/Scale
\* (dab.py:254-261)
Increment(mode, temps, i) ==
    IF max_temp(temps) = min_temp(temps) THEN 0
    ELSE IF mode = "cooling"
         THEN increment_percentage_x2 * (temps[i] - min_temp(temps))
         ELSE increment_percentage_x2 * (max_temp(temps) - temps[i])

\* RedistributePass with the deficit reduced by the unweighted
\* increment_percentage instead of the increment that was applied
RECURSIVE RedistributePassUnweighted(_, _, _, _)
RedistributePassUnweighted(mode, temps, st, i) ==
    IF i > Len(temps) THEN st
    ELSE IF st.open[i] >= 100 * Scale(temps)
         THEN RedistributePassUnweighted(mode, temps, st, i + 1)
         ELSE LET inc == Increment(mode, temps, i)
                  nst == [open |-> [st.open EXCEPT ![i] = @ + inc],
                          diff |-> st.diff - increment_percentage_x2 *
                                             (max_temp(temps) - min_temp(temps))]
              IN IF nst.diff <= 0 THEN nst
                 ELSE RedistributePassUnweighted(mode, temps, nst, i + 1)

\* RedistributePass without the break of dab.py:265-266
RECURSIVE RedistributePassNoBreak(_, _, _, _)
RedistributePassNoBreak(mode, temps, st, i) ==
    IF i > Len(temps) THEN st
    ELSE IF st.open[i] >= 100 * Scale(temps)
         THEN RedistributePassNoBreak(mode, temps, st, i + 1)
         ELSE LET inc == Increment(mode, temps, i)
              IN RedistributePassNoBreak(mode, temps,
                                         [open |-> [st.open EXCEPT ![i] = @ + inc],
                                          diff |-> st.diff - inc],
                                         i + 1)

\* One execution of the for loop of dab.py:249-266, from vent i on.
\* st = [open |-> scaled percents, diff |-> scaled diff_percentage_sum]
RECURSIVE RedistributePass(_, _, _, _)
RedistributePass(mode, temps, st, i) ==
    IF i > Len(temps) THEN st
    ELSE IF st.open[i] >= 100 * Scale(temps)
         THEN RedistributePass(mode, temps, st, i + 1)
         ELSE LET inc == Increment(mode, temps, i)
                  nst == [open |-> [st.open EXCEPT ![i] = @ + inc],
                          diff |-> st.diff - inc]
              IN IF nst.diff <= 0 THEN nst
                 ELSE RedistributePass(mode, temps, nst, i + 1)

\* RedistributeStep without the iteration cap of the while condition
RedistributeStepUncapped(mode, temps, st) ==
    IF st.diff > 0
    THEN LET r == RedistributePass(mode, temps, [open |-> st.open, diff |-> st.diff], 1)
         IN [open |-> r.open, diff |-> r.diff, iterations |-> st.iterations + 1]
    ELSE st

\* One evaluation of the while condition of dab.py:247 followed, when it
\* holds, by the loop body (dab.py:248-266).  Once the condition is false
\* the state no longer changes.
RedistributeStep(mode, temps, st) ==
    IF st.diff > 0 /\ st.iterations < max_iterations
    THEN LET r == RedistributePass(mode, temps, [open |-> st.open, diff |-> st.diff], 1)
         IN [open |-> r.open, diff |-> r.diff, iterations |-> st.iterations + 1]
    ELSE st

\* n successive RedistributeSteps (split in halves to keep the evaluation
\* shallow; when the first half ends with the deficit eliminated the loop
\* has been left and the second half changes nothing).  The while loop of
\* dab.py:246-266 is max_iterations of them: it leaves the loop at the
\* first step whose condition is false, and the condition is false at the
\* latest after max_iterations passes.
RECURSIVE RedistributeSteps(_, _, _, _)
RedistributeSteps(mode, temps, st, n) ==
    IF n = 0 THEN st
    ELSE IF n = 1 THEN RedistributeStep(mode, temps, st)
    ELSE LET h == n \div 2
             mid == RedistributeSteps(mode, temps, st, h)
         IN IF mid.diff <= 0 THEN mid
            ELSE RedistributeSteps(mode, temps, mid, n - h)

RedistributeLoop(mode, temps, st) ==
    RedistributeSteps(mode, temps,
                      [open |-> st.open, diff |-> st.diff, iterations |-> 0],
                      max_iterations)

\* the sum of the managed targets without the conventional vents
sum_percentages_managed_only(scaled, conv, sc) == SeqSum(scaled)

\* sum_percentages of dab.py:222-226: the conventional vents count at
\* standard_vent_default_open each
sum_percentages(scaled, conv, sc) ==
    conv * standard_vent_default_open * sc + SeqSum(scaled)

\* The whole function.  The result carries the targets in units of 1/Scale
\* and the number of passes of the while loop that ran.
adjust_for_minimum_airflow(temps, mode, targets, additional_standard_vents) ==
    LET conv == IF additional_standard_vents > 0 THEN additional_standard_vents ELSE 0
        total_device_count == conv + Len(targets)
        sc == Scale(temps)
        scaled == [i \in 1..Len(targets) |-> targets[i] * sc]
        sum == sum_percentages(scaled, conv, sc)
        target_percent_sum == min_combined_vent_flow * total_device_count * sc
    IN IF total_device_count <= 0
       THEN [targets |-> scaled, iterations |-> 0]
       ELSE IF sum >= target_percent_sum
       THEN [targets |-> scaled, iterations |-> 0]
       ELSE LET r == RedistributeLoop(mode, temps,
                        [open |-> scaled, diff |-> target_percent_sum - sum])
            IN [targets |-> r.open, iterations |-> r.iterations]

\* ------------------------------------------------------------------------
\* Configuration of the coordinator (entry.options) and small helpers

None == -9999

Thermostats == {"t1", "t2"}
Vents == {"v1", "v2", "v3"}

\* CONF_VENT_ASSIGNMENTS in dict order: vent -> thermostat entity
VentOrder == <<"v1", "v2", "v3">>
ThermostatOf(v) == IF v = "v3" THEN "t2" ELSE "t1"

\* grouped[thermostat] of _async_process_dab and the order of its keys
grouped(t) == SelectSeq(VentOrder, LAMBDA v : ThermostatOf(v) = t)
GroupOrder == <<"t1", "t2">>

\* room name of each vent (vent["room"]["attributes"]["name"]): v1 and v2
\* are two vents of one room
RoomName(v) == IF v = "v3" THEN "r3" ELSE "r1"

\* entry.options
close_inactive == TRUE
granularity == 5
min_adjust_percent == 10
min_adjust_interval == 1
\* temp_error_override_c is 0.6 degree: six tenths
temp_error_override == 6
DEFAULT_INITIAL_EFFICIENCY_PERCENT == 50
control_strategy == "hybrid"

\* DabSettings in the units of the model
\* setpoint_offset is 0.7 degree: seven tenths
setpoint_offset == 7
\* max_minutes_to_setpoint is 60 minutes, in seconds
max_minutes_to_setpoint == 3600
\* min_minutes_to_setpoint is 1 minute, in seconds
min_minutes_to_setpoint == 60
\* min_runtime_for_rate_calc is 5 minutes, in seconds
min_runtime_for_rate_calc == 300
\* temp_sensor_accuracy is 0.5 degree, min_detectable_temp_change 0.1 degree
temp_sensor_accuracy == 5
min_detectable_temp_change == 1
\* max_temp_change_rate is 1.5, min_temp_change_rate 0.001, in micro-degrees
max_temp_change_rate == 1500000
min_temp_change_rate == 1000
\* asyncio.sleep(30) of finalize_task
SettleDelay == 30

Active == {"heating", "cooling"}

Abs(x) == IF x < 0 THEN -x ELSE x
Max(a, b) == IF a > b THEN a ELSE b
Min(a, b) == IF a < b THEN a ELSE b

RECURSIVE GCD(_, _)
GCD(a, b) == IF b = 0 THEN a ELSE GCD(b, a % b)

\* Rationals [n, d] with d > 0, kept in lowest terms
Rat(n, d) == LET g == GCD(Abs(n), Abs(d))
                 s == IF d < 0 THEN -1 ELSE 1
             IN IF n = 0 THEN [n |-> 0, d |-> 1]
                ELSE [n |-> s * (n \div g), d |-> s * (d \div g)]
RatInt(k) == [n |-> k, d |-> 1]
RatAdd(a, b) == LET g == GCD(a.d, b.d)
                IN Rat(a.n * (b.d \div g) + b.n * (a.d \div g), (a.d \div g) * b.d)
RatSub(a, b) == RatAdd(a, [n |-> -b.n, d |-> b.d])
RatMul(a, b) == LET x == Rat(a.n, b.d)
                    y == Rat(b.n, a.d)
                IN Rat(x.n * y.n, x.d * y.d)
RatDiv(a, b) == RatMul(a, Rat(b.d, b.n))
RatLt(a, b) == RatSub(a, b).n < 0
RatLe(a, b) == RatSub(a, b).n <= 0

\* round(x) of Python for a rational x: nearest integer, ties to even
RatRound(a) ==
    LET fl == a.n \div a.d
        twice == 2 * (a.n - fl * a.d)
    IN IF twice < a.d THEN fl
       ELSE IF twice > a.d THEN fl + 1
       ELSE IF fl % 2 = 0 THEN fl ELSE fl + 1

\* rounding to a multiple with round() of Python, which sends ties to even
round_to_even_multiple(value, g) == RatRound(Rat(value, 10 * g)) * g

\* round_to_nearest_multiple (dab.py:40-48); value in tenths of a percent
round_to_nearest_multiple(value, g) ==
    IF g <= 0 THEN RatRound(Rat(value, 10))
    ELSE IF value >= 0
         THEN ((2 * value + 10 * g) \div (20 * g)) * g
         ELSE (-((10 * g - 2 * value) \div (20 * g))) * g

\* Python None where a rational is expected
NoneRat == [n |-> 0, d |-> 0]

\* rolling_average (dab.py:51-58) on rationals; current_average may be None
rolling_average(current_average, new_number, weight, num_entries) ==
    IF num_entries <= 0 THEN RatInt(0)
    ELSE LET base == IF current_average.d = 0 \/ current_average.n = 0
                     THEN new_number ELSE current_average
             total == RatAdd(RatMul(base, RatInt(num_entries - 1)),
                             RatAdd(base, RatMul(RatSub(new_number, base), weight)))
         IN RatDiv(total, RatInt(num_entries))

\* has_room_reached_setpoint (dab.py:61-64), offset 0
has_room_reached_setpoint(hvac_mode, setpoint, current_temp) ==
    IF hvac_mode = "cooling" THEN current_temp <= setpoint
    ELSE current_temp >= setpoint

\* _calculate_temp_error (coordinator.py:374-381)
calculate_temp_error(hvac_action, setpoint, temp) ==
    IF temp = None THEN None
    ELSE IF hvac_action = "heating" THEN Max(0, setpoint - temp)
    ELSE IF hvac_action = "cooling" THEN Max(0, temp - setpoint)
    ELSE None

\* _get_thermostat_setpoint (coordinator.py:1070-1097)
get_thermostat_setpoint(t, hvac_action) ==
    IF target_temp[t] = None THEN None
    ELSE IF hvac_action = "cooling" THEN target_temp[t] - setpoint_offset
    ELSE target_temp[t] + setpoint_offset

\* _initial_rate (coordinator.py:1340-1342), in micro-degrees per minute
initial_rate == Max(0, Min(100, initial_efficiency_percent)) * 10000

\* ------------------------------------------------------------------------
\* Shapes of the state

\* self.data before the first refresh
NoData == [loaded |-> FALSE,
           open |-> [v \in Vents |-> None],
           temp |-> [v \in Vents |-> None],
           active |-> [v \in Vents |-> TRUE]]

\* absent entry of _dab_state; cycle is history: the number of the cycle
NoCycle == [mode |-> "none", started_cycle |-> None, started_running |-> None,
            cycle |-> 0]

\* absent entry of _cycle_stats
NoStats == [present |-> FALSE, adjustments |-> 0, movement |-> 0, strategy |-> "none"]

\* absent entry of _vent_models[vent][mode]
NoModel == [n |-> 0, sum_x |-> 0, sum_y |-> RatInt(0), sum_xx |-> 0, sum_xy |-> RatInt(0)]

\* absent entry of _strategy_metrics
NoMetrics == [cycles |-> 0, avg_temp_error |-> RatInt(0), avg_adjustments |-> RatInt(0),
              avg_movement |-> RatInt(0), last_temp_error |-> NoneRat,
              last_adjustments |-> 0, last_movement |-> 0, last_updated |-> None]

\* a free slot of finalize tasks; cycle is history: the number of the cycle
\* whose end scheduled the task
NoTask == [pc |-> "none", hvac_action |-> "none", wake |-> None, cycle |-> 0]

\* one _async_apply_dab_adjustments call of a poll; last_before,
\* target_before and stats_before are history: _vent_last_commanded,
\* _vent_last_target and the _cycle_stats entry as they were when the call
\* started
NoPass == [ran |-> FALSE, ended |-> FALSE, hvac_action |-> "none", setpoint |-> None,
           now |-> None, targets |-> [v \in Vents |-> None],
           last_before |-> [v \in Vents |-> None], changed |-> 0, movement |-> 0,
           target_before |-> [v \in Vents |-> None], stats_before |-> NoStats]

TimerOwner == [t |-> "none", slot |-> 0]

\* no _async_update_data has run yet.  timer_at is the time at which the
\* update timer last fired.  data is the snapshot the poll fetched;
\* plan holds, for each vent, the target (tenths of a percent) that lines
\* 885-981 will compute in this poll; skipped_before is history: the
\* thermostats whose pass the poll before this one dropped for want of a
\* setpoint
NoPoll == [pc |-> "idle", owner |-> TimerOwner, data |-> NoData,
           plan |-> [v \in Vents |-> None], groups |-> <<>>,
           cur |-> "none", queue |-> <<>>, inflight |-> "none",
           passes |-> [t \in Thermostats |-> NoPass],
           seen |-> {}, failed |-> FALSE, timer_at |-> None,
           skipped_before |-> {}]

\* FlairApi.__init__ (api.py:35-44): no token, _auth_lock free (auth_lock
\* is the request that holds it, 0 for none), no request under way.  A
\* token is the number of its token response, 0 is None.  A request is at
\* pc "idle", "auth" (waiting for _auth_lock), "await_token",
\* "await_response", "retry_sleep" or "await_retry", and header is the token
\* of its Authorization header.  issued and rejected are history: the
\* number of tokens issued and the tokens a 401/403 response came back for.
NoRequest == [pc |-> "idle", header |-> 0]

NewFlairApi == [access_token |-> 0, token_expires_at |-> None, auth_lock |-> 0,
                req |-> [k \in 1..MaxRequests |-> NoRequest],
                issued |-> 0, rejected |-> {}]

\* FlairVentCover.__init__ (cover.py:25-32) for a vent that the snapshot
\* reports at 20% open.  percent is the percent-open of the vent in
\* coordinator.data.  History: commanded and commanded_until are the
\* position and the end of the window of the latest
\* async_set_cover_position, released says that since then an update
\* reported that position or arrived after the window.
NewCover == [pending_position |-> None, pending_until |-> None,
             attr_current_cover_position |-> None, percent |-> 20,
             commanded |-> None, commanded_until |-> None, released |-> FALSE,
             updated |-> FALSE]

\* no _async_apply_dab_adjustments call outside a poll is under way.  Such a
\* call (by async_run_dab or _async_pre_adjust) works on data, the snapshot
\* self.data was when it started, for thermostat cur; calls are the
\* commands it has emitted; n is history: the number of calls so far.
\* pre_adjust_flags is _pre_adjust_flags (coordinator.py:90).
NoDirect == [pc |-> "idle", kind |-> "none", cur |-> "none", data |-> NoData,
             ps |-> NoPass, queue |-> <<>>, inflight |-> "none", calls |-> <<>>,
             n |-> 0, pre_adjust_flags |-> [t \in Thermostats |-> FALSE]]

\* no _async_save_state call is in flight and _save_lock is free
\* (coordinator.py:92); lock is the call that holds it, 0 for none, and by
\* names the caller of each call (a thermostat's finalize, or "import")
NoSaves == [lock |-> 0, pc |-> [k \in 1..MaxSavers |-> "idle"],
            by |-> [k \in 1..MaxSavers |-> ""]]

\* The fields of the coordinator as one record, and back
Cur == [data |-> data, last_hvac_action |-> last_hvac_action, dab_state |-> dab_state,
        cycle_stats |-> cycle_stats, vent_starting_temps |-> vent_starting_temps,
        vent_starting_open |-> vent_starting_open,
        vent_last_commanded |-> vent_last_commanded,
        vent_last_target |-> vent_last_target, pending_finalize |-> pending_finalize,
        vent_rates |-> vent_rates, max_rates |-> max_rates,
        max_running_minutes |-> max_running_minutes, vent_models |-> vent_models,
        strategy_metrics |-> strategy_metrics, store |-> store,
        unsub_thermostat_listeners |-> unsub_thermostat_listeners,
        tasks |-> tasks, poll |-> poll, api_calls |-> api_calls, saves |-> saves,
        flair_api |-> flair_api, cover |-> cover, dab_enabled |-> dab_enabled,
        direct |-> direct, empty_finalizes |-> empty_finalizes,
        cycle_no |-> cycle_no,
        start_temp_cycle |-> start_temp_cycle, start_open_cycle |-> start_open_cycle,
        polls |-> polls]

Commit(c) ==
    /\ data' = c.data
    /\ last_hvac_action' = c.last_hvac_action
    /\ dab_state' = c.dab_state
    /\ cycle_stats' = c.cycle_stats
    /\ vent_starting_temps' = c.vent_starting_temps
    /\ vent_starting_open' = c.vent_starting_open
    /\ vent_last_commanded' = c.vent_last_commanded
    /\ vent_last_target' = c.vent_last_target
    /\ pending_finalize' = c.pending_finalize
    /\ vent_rates' = c.vent_rates
    /\ max_rates' = c.max_rates
    /\ max_running_minutes' = c.max_running_minutes
    /\ vent_models' = c.vent_models
    /\ strategy_metrics' = c.strategy_metrics
    /\ store' = c.store
    /\ unsub_thermostat_listeners' = c.unsub_thermostat_listeners
    /\ tasks' = c.tasks
    /\ poll' = c.poll
    /\ api_calls' = c.api_calls
    /\ saves' = c.saves
    /\ flair_api' = c.flair_api
    /\ cover' = c.cover
    /\ dab_enabled' = c.dab_enabled
    /\ direct' = c.direct
    /\ empty_finalizes' = c.empty_finalizes
    /\ cycle_no' = c.cycle_no
    /\ start_temp_cycle' = c.start_temp_cycle
    /\ start_open_cycle' = c.start_open_cycle
    /\ polls' = c.polls

RateProp(hvac_action) == IF hvac_action = "cooling" THEN "cooling" ELSE "heating"

\* _start_hvac_cycle that cancels the finalize tasks of the thermostat
start_hvac_cycle_cancelling(c, t, hvac_action, d) ==
    LET vs == {grouped(t)[i] : i \in 1..Len(grouped(t))}
        k == c.cycle_no[t] + 1
    IN [c EXCEPT
         !.dab_state[t] = [mode |-> hvac_action, started_cycle |-> now,
                           started_running |-> now, cycle |-> k],
         !.cycle_stats[t] = [present |-> TRUE, adjustments |-> 0, movement |-> 0,
                             strategy |-> control_strategy],
         !.vent_starting_temps = [v \in Vents |->
              IF v \in vs /\ d.temp[v] # None THEN d.temp[v] ELSE @[v]],
         !.vent_starting_open = [v \in Vents |->
              IF v \in vs THEN (IF d.open[v] = None THEN 0 ELSE d.open[v]) ELSE @[v]],
         !.cycle_no[t] = k,
         !.start_temp_cycle = [v \in Vents |->
              IF v \in vs /\ d.temp[v] # None THEN k ELSE @[v]],
         !.start_open_cycle = [v \in Vents |-> IF v \in vs THEN k ELSE @[v]],
         !.tasks[t] = [s \in DOMAIN @ |-> IF @[s].pc = "sleep" THEN NoTask ELSE @[s]],
         !.pending_finalize = IF \A s \in DOMAIN c.tasks[t] : c.tasks[t][s].pc \in {"none", "sleep"}
                              THEN @ \ {t} ELSE @]

\* ------------------------------------------------------------------------
\* _start_hvac_cycle (coordinator.py:680-703)
start_hvac_cycle(c, t, hvac_action, d) ==
    LET vs == {grouped(t)[i] : i \in 1..Len(grouped(t))}
        k == c.cycle_no[t] + 1
    IN [c EXCEPT
         !.dab_state[t] = [mode |-> hvac_action, started_cycle |-> now,
                           started_running |-> now, cycle |-> k],
         !.cycle_stats[t] = [present |-> TRUE, adjustments |-> 0, movement |-> 0,
                             strategy |-> control_strategy],
         !.vent_starting_temps = [v \in Vents |->
              IF v \in vs /\ d.temp[v] # None THEN d.temp[v] ELSE @[v]],
         !.vent_starting_open = [v \in Vents |->
              IF v \in vs THEN (IF d.open[v] = None THEN 0 ELSE d.open[v]) ELSE @[v]],
         !.cycle_no[t] = k,
         !.start_temp_cycle = [v \in Vents |->
              IF v \in vs /\ d.temp[v] # None THEN k ELSE @[v]],
         !.start_open_cycle = [v \in Vents |-> IF v \in vs THEN k ELSE @[v]]]

\* lowest free slot for a finalize task of t, 0 if none
FreeSlot(c, t) ==
    IF \E i \in DOMAIN c.tasks[t] : c.tasks[t][i] = NoTask
    THEN CHOOSE i \in DOMAIN c.tasks[t] :
            /\ c.tasks[t][i] = NoTask
            /\ \A j \in DOMAIN c.tasks[t] : c.tasks[t][j] = NoTask => i <= j
    ELSE 0

\* _schedule_finalize without the test of line 708
schedule_finalize_unguarded(c, t, hvac_action) ==
    [c EXCEPT
       !.tasks[t][FreeSlot(c, t)] = [pc |-> "sleep", hvac_action |-> hvac_action,
                                     wake |-> now + SettleDelay,
                                     cycle |-> c.dab_state[t].cycle],
       !.pending_finalize = @ \cup {t}]

\* _schedule_finalize (coordinator.py:705-717): the created task starts with
\* asyncio.sleep(30)
schedule_finalize(c, t, hvac_action) ==
    IF t \in c.pending_finalize THEN c
    ELSE [c EXCEPT
           !.tasks[t][FreeSlot(c, t)] = [pc |-> "sleep", hvac_action |-> hvac_action,
                                         wake |-> now + SettleDelay,
                                         cycle |-> c.dab_state[t].cycle],
           !.pending_finalize = @ \cup {t}]

\* ------------------------------------------------------------------------
\* _async_apply_dab_adjustments (coordinator.py:831-1029)

\* _ensure_initial_rate for every vent of the pass whose rate is <= 0
\* (coordinator.py:863-868, 1332-1338)
SeedRates(rates, t, hvac_action) ==
    [v \in Vents |->
        IF ThermostatOf(v) = t /\ rates[v][RateProp(hvac_action)] <= 0 /\ initial_rate > 0
        THEN [rates[v] EXCEPT ![RateProp(hvac_action)] = initial_rate]
        ELSE rates[v]]

\* Lines 834-983: the pass returns at once without a setpoint; otherwise it
\* seeds the rates, computes the targets and enters the loop over the vents.
\* The targets of lines 885-981 (the three cost functions, the hybrid choice
\* and adjust_for_minimum_airflow) are those of poll.plan: any value of the
\* set the poll draws them from, except that an active vent without a room
\* temperature gets 100% (lines 972-974), which adjust_for_minimum_airflow
\* leaves alone.
BeginPass(c, t, hvac_action) ==
    LET setpoint == get_thermostat_setpoint(t, hvac_action)
    IN IF setpoint = None
       THEN [c EXCEPT !.poll.passes[t] = [NoPass EXCEPT !.hvac_action = hvac_action]]
       ELSE [c EXCEPT
              !.vent_rates = SeedRates(@, t, hvac_action),
              !.poll.cur = t,
              !.poll.queue = grouped(t),
              !.poll.passes[t] =
                  [ran |-> TRUE, ended |-> FALSE, hvac_action |-> hvac_action,
                   setpoint |-> setpoint, now |-> now,
                   targets |-> [v \in Vents |->
                                  IF ThermostatOf(v) # t THEN None
                                  ELSE IF c.poll.data.temp[v] = None /\ c.poll.data.active[v]
                                  THEN 1000
                                  ELSE c.poll.plan[v]],
                   last_before |-> c.vent_last_commanded,
                   changed |-> 0, movement |-> 0,
                   target_before |-> c.vent_last_target,
                   stats_before |-> c.cycle_stats[t]]]

\* rate_and_temp[vent]["temp"]: the room temperature, the setpoint if missing
\* (coordinator.py:869-872)
PassTemp(d, setpoint, v) == IF d.temp[v] = None THEN setpoint ELSE d.temp[v]

\* override of coordinator.py:995-997
Override(hvac_action, setpoint, temp) ==
    LET error == calculate_temp_error(hvac_action, setpoint, temp)
    IN error # None /\ error >= temp_error_override

\* safety_override of coordinator.py:998
SafetyOverride(active, target_rounded) ==
    close_inactive /\ ~active /\ target_rounded > 0

\* The decision of one turn of the loop of coordinator.py:986-1004 for a
\* vent: TRUE when the loop reaches line 1005 (a command), FALSE on continue.
GateCommands(ps, d, last_change, v) ==
    LET target_rounded == round_to_nearest_multiple(ps.targets[v], granularity)
        current == d.open[v]
    IN /\ current # None
       /\ current # target_rounded
       /\ \/ Override(ps.hvac_action, ps.setpoint, PassTemp(d, ps.setpoint, v))
          \/ SafetyOverride(d.active[v], target_rounded)
          \/ /\ ~(min_adjust_percent > 0 /\ Abs(target_rounded - current) < min_adjust_percent)
             /\ ~(last_change # None /\ ps.now - last_change < min_adjust_interval * 60)

\* Lines 1011-1023 after the loop
EndPass(c) ==
    LET t == c.poll.cur
        ps == c.poll.passes[t]
        old == IF c.cycle_stats[t].present THEN c.cycle_stats[t]
               ELSE [present |-> TRUE, adjustments |-> 0, movement |-> 0,
                     strategy |-> control_strategy]
    IN [c EXCEPT
         !.cycle_stats[t] = [old EXCEPT !.adjustments = @ + ps.changed,
                                        !.movement = @ + ps.movement,
                                        !.strategy = control_strategy],
         !.poll.passes[t].ended = TRUE,
         !.poll.cur = "none"]

\* _async_process_thermostat_group (coordinator.py:651-678) up to the loop
\* of the pass
ProcessGroup(c, t) ==
    IF hvac[t] = "unavailable" THEN c
    ELSE LET hvac_action == hvac[t]
             prev_action == c.last_hvac_action[t]
             c1 == IF hvac_action \in Active /\ prev_action \notin Active
                   THEN start_hvac_cycle(c, t, hvac_action, c.poll.data) ELSE c
             c2 == IF hvac_action \notin Active /\ prev_action \in Active
                   THEN schedule_finalize(c1, t, prev_action) ELSE c1
             c3 == [c2 EXCEPT !.last_hvac_action[t] = hvac_action]
         IN IF hvac_action \in Active THEN BeginPass(c3, t, hvac_action) ELSE c3

\* _async_update_data returns (coordinator.py:180): the coordinator stores the
\* snapshot in self.data, and a finalize_task that awaited the refresh goes on
EndPoll(c) ==
    LET o == c.poll.owner
        c1 == [c EXCEPT !.data = c.poll.data, !.poll.pc = "idle",
                        !.poll.cur = "none", !.poll.queue = <<>>,
                        !.poll.groups = <<>>, !.poll.inflight = "none"]
    IN IF o = TimerOwner THEN c1
       ELSE [c1 EXCEPT !.tasks[o.t][o.slot].pc = "finalize"]

\* The poll runs from where it is to its next await (the API call of
\* coordinator.py:1007) or to its end: _async_process_dab (591-604) takes the
\* groups in order, each pass takes its vents in order.
RECURSIVE Advance(_)
Advance(c) ==
    LET p == c.poll
    IN IF p.cur # "none"
       THEN IF p.queue = <<>> THEN Advance(EndPass(c))
            ELSE LET v == Head(p.queue)
                     ps == p.passes[p.cur]
                     tr == round_to_nearest_multiple(ps.targets[v], granularity)
                 IN IF ~GateCommands(ps, p.data, c.vent_last_commanded[v], v)
                    THEN Advance([c EXCEPT !.poll.queue = Tail(@)])
                    ELSE [c EXCEPT
                            !.poll.passes[p.cur].changed = @ + 1,
                            !.poll.passes[p.cur].movement = @ + Abs(tr - p.data.open[v]),
                            !.poll.queue = Tail(@),
                            !.poll.inflight = v,
                            !.poll.pc = "await_api",
                            !.api_calls = Append(@, [vent |-> v, percent |-> tr,
                                                     result |-> "sent"])]
       ELSE IF p.groups # <<>>
       THEN LET t == Head(p.groups)
            IN Advance(ProcessGroup([c EXCEPT !.poll.groups = Tail(@),
                                              !.poll.seen = @ \cup {t}], t))
       ELSE EndPoll(c)

\* the groups _async_update_data processes whatever the options say
dab_groups_always(c) == GroupOrder

\* the groups _async_update_data processes: those of _async_process_dab
\* (coordinator.py:591-604) when CONF_DAB_ENABLED is set, none otherwise
\* (coordinator.py:173-178)
dab_groups(c) == IF c.dab_enabled THEN GroupOrder ELSE <<>>

\* _async_update_data (coordinator.py:152-180) once the vents are fetched:
\* d is the fetched snapshot
StartPoll(c, owner, d, tg) ==
    Advance([c EXCEPT !.poll = [NoPoll EXCEPT !.owner = owner, !.data = d,
                                              !.plan = tg, !.groups = dab_groups(c),
                                              !.timer_at = IF owner = TimerOwner THEN now
                                                           ELSE c.poll.timer_at,
                                              !.skipped_before =
                                                  {t \in Thermostats :
                                                      /\ ~c.poll.passes[t].ran
                                                      /\ c.poll.passes[t].hvac_action \in Active}],
                      !.api_calls = <<>>,
                      !.polls = @ + 1])

\* async_set_vent_position returned (coordinator.py:1008-1009) and the loop
\* goes on
ApiOk(c) ==
    LET v == c.poll.inflight
        ps == c.poll.passes[c.poll.cur]
        n == Len(c.api_calls)
    IN Advance([c EXCEPT !.vent_last_commanded[v] = ps.now,
                         !.vent_last_target[v] = c.api_calls[n].percent,
                         !.api_calls[n].result = "ok",
                         !.poll.inflight = "none"])

\* async_set_vent_position raised: nothing catches it before
\* _async_update_data (coordinator.py:174-178), which logs it and returns data
ApiRaises(c) ==
    LET n == Len(c.api_calls)
    IN EndPoll([c EXCEPT !.api_calls[n].result = "failed",
                         !.poll.failed = TRUE])

\* ------------------------------------------------------------------------
\* _async_finalize_cycle (coordinator.py:719-829)

\* a stored rate (micro-degrees per minute) as a rational of degrees
RateRat(micro) == Rat(micro, 1000000)

\* round_big_decimal(x, 6) of a rational rate, back in micro-degrees
Cleaned(x) == RatRound(RatMul(x, RatInt(1000000)))

\* the approximate rate returned as it is
unbounded_rate(approx_rate) == approx_rate

\* dab.py:114-118: a rate above the ceiling is rejected, one below the floor
\* is raised to it
bounded_rate(approx_rate) ==
    IF RatLt(RateRat(max_temp_change_rate), approx_rate) THEN RatInt(-1)
    ELSE IF RatLt(approx_rate, RateRat(min_temp_change_rate))
         THEN RateRat(min_temp_change_rate)
    ELSE approx_rate

\* calculate_room_change_rate (dab.py:84-118): temperatures in tenths of a
\* degree, the duration in seconds, the rates as rationals; -1 is RatInt(-1)
calculate_room_change_rate(last_start_temp, current_temp, total_seconds, percent_open, current_rate) ==
    LET diff_temps == Abs(last_start_temp - current_temp)
        diff_used == IF diff_temps < temp_sensor_accuracy
                     THEN Max(diff_temps, min_detectable_temp_change)
                     ELSE diff_temps
        rate == Rat(6 * diff_used, total_seconds)
        p_open == Rat(percent_open, 100)
        max_rate == IF RatLt(rate, current_rate) THEN current_rate ELSE rate
        approx_rate == IF max_rate.n # 0
                       THEN RatDiv(RatDiv(rate, max_rate), p_open)
                       ELSE RatInt(0)
    IN IF total_seconds < min_minutes_to_setpoint THEN RatInt(-1)
       ELSE IF total_seconds < min_runtime_for_rate_calc THEN RatInt(-1)
       ELSE IF percent_open <= 0 THEN RatInt(-1)
       ELSE IF diff_temps < min_detectable_temp_change
            THEN (IF percent_open >= 30 THEN RateRat(min_temp_change_rate)
                  ELSE RatInt(-1))
       ELSE bounded_rate(approx_rate)

\* Lines 772-785: the rate to average when calculate_room_change_rate gave
\* none; NoneRat stands for the continue of line 785
FallbackRate(c, t, hvac_action, current_temp, percent_open, current_rate) ==
    LET setpoint == get_thermostat_setpoint(t, hvac_action)
    IN IF setpoint # None /\ has_room_reached_setpoint(hvac_action, setpoint, current_temp)
       THEN (IF current_rate > 0 THEN RateRat(current_rate) ELSE RatInt(-1))
       ELSE IF percent_open > 0 THEN RateRat(min_temp_change_rate)
       ELSE IF current_rate = 0
            THEN RatMul(RateRat(c.max_rates[RateProp(hvac_action)]), Rat(1, 10))
       ELSE NoneRat

\* AddObservation that leaves sum_xx as it is
AddObservationWithoutSquares(stats, percent_open, observed_rate) ==
    [n |-> stats.n + 1,
     sum_x |-> stats.sum_x + percent_open,
     sum_y |-> RatAdd(stats.sum_y, observed_rate),
     sum_xx |-> stats.sum_xx,
     sum_xy |-> RatAdd(stats.sum_xy, RatMul(RatInt(percent_open), observed_rate))]

\* Lines 798-809: one observation added to the regression sums of a vent
AddObservation(stats, percent_open, observed_rate) ==
    [n |-> stats.n + 1,
     sum_x |-> stats.sum_x + percent_open,
     sum_y |-> RatAdd(stats.sum_y, observed_rate),
     sum_xx |-> stats.sum_xx + percent_open * percent_open,
     sum_xy |-> RatAdd(stats.sum_xy, RatMul(RatInt(percent_open), observed_rate))]

\* Lines 753-809 of the loop of _async_finalize_cycle: the rate of vent v is
\* learned from its own readings.  room_rates maps a room name to the rate
\* already learned for it in this call, None if none.
LearnVentRate(c, room_rates, t, hvac_action, v, total_seconds) ==
    LET rate_prop == RateProp(hvac_action)
        start_temp == c.vent_starting_temps[v]
        current_temp == c.data.temp[v]
        percent_open == IF c.vent_starting_open[v] # None THEN c.vent_starting_open[v]
                        ELSE IF c.data.open[v] = None THEN 0 ELSE c.data.open[v]
        current_rate == c.vent_rates[v][rate_prop]
        computed == calculate_room_change_rate(start_temp, current_temp, total_seconds,
                                               percent_open, RateRat(current_rate))
        new_rate == IF computed.n <= 0
                    THEN FallbackRate(c, t, hvac_action, current_temp, percent_open,
                                      current_rate)
                    ELSE computed
        averaged == rolling_average(RateRat(current_rate), new_rate,
                                    Rat(percent_open, 100), 4)
        cleaned == Cleaned(averaged)
        c1 == [c EXCEPT !.vent_rates[v][rate_prop] = cleaned,
                        !.max_rates[rate_prop] = IF cleaned > @ THEN cleaned ELSE @]
        c2 == IF total_seconds > 0 /\ percent_open > 0
              THEN [c1 EXCEPT !.vent_models[v][rate_prop] =
                       AddObservation(@, percent_open,
                                      Rat(6 * Abs(current_temp - start_temp), total_seconds))]
              ELSE c1
    IN IF start_temp = None \/ current_temp = None
       THEN [c |-> c, room_rates |-> room_rates]
       ELSE IF new_rate = NoneRat
       THEN [c |-> c, room_rates |-> room_rates]
       ELSE [c |-> c2, room_rates |-> [room_rates EXCEPT ![RoomName(v)] = cleaned]]

\* a loop turn without lines 749-751: every vent learns from its own readings
FinalizeVentRecomputing(c, room_rates, t, hvac_action, v, total_seconds) ==
    LearnVentRate(c, room_rates, t, hvac_action, v, total_seconds)

\* One turn of the loop of lines 747-809 for vent v: a vent of a room that
\* already has a rate from this call gets that rate (lines 748-751)
FinalizeVent(c, room_rates, t, hvac_action, v, total_seconds) ==
    IF room_rates[RoomName(v)] # None
    THEN [c |-> [c EXCEPT !.vent_rates[v][RateProp(hvac_action)] = room_rates[RoomName(v)]],
          room_rates |-> room_rates]
    ELSE LearnVentRate(c, room_rates, t, hvac_action, v, total_seconds)

RECURSIVE FinalizeVents(_, _, _, _, _, _)
FinalizeVents(c, room_rates, t, hvac_action, vs, total_seconds) ==
    IF vs = <<>> THEN c
    ELSE LET r == FinalizeVent(c, room_rates, t, hvac_action, Head(vs), total_seconds)
         IN FinalizeVents(r.c, r.room_rates, t, hvac_action, Tail(vs), total_seconds)

\* _update_strategy_metrics (coordinator.py:436-466); temp_error is a rational
\* of tenths of a degree
update_strategy_metrics(m, temp_error, adjustments, movement) ==
    LET cycles == m.cycles + 1
        Avg(old, x) == RatDiv(RatAdd(RatMul(old, RatInt(cycles - 1)), x), RatInt(cycles))
    IN [cycles |-> cycles,
        avg_temp_error |-> Avg(m.avg_temp_error, temp_error),
        avg_adjustments |-> Avg(m.avg_adjustments, RatInt(adjustments)),
        avg_movement |-> Avg(m.avg_movement, RatInt(movement)),
        last_temp_error |-> temp_error,
        last_adjustments |-> adjustments,
        last_movement |-> movement,
        last_updated |-> now]

\* Lines 811-827
FinalizeMetrics(c, t, hvac_action, stats) ==
    LET setpoint == get_thermostat_setpoint(t, hvac_action)
        vs == grouped(t)
        errs == SelectSeq([i \in 1..Len(vs) |->
                              calculate_temp_error(hvac_action, setpoint, c.data.temp[vs[i]])],
                          LAMBDA e : e # None)
        strategy == IF stats.present THEN stats.strategy ELSE control_strategy
    IN IF setpoint = None \/ errs = <<>> THEN c
       ELSE [c EXCEPT !.strategy_metrics[strategy] =
                update_strategy_metrics(@, Rat(SeqSum(errs), Len(errs)),
                                        stats.adjustments, stats.movement)]

\* _async_save_state (coordinator.py:1384-1393)
save_state(c) ==
    [c EXCEPT !.store = [vent_rates |-> c.vent_rates, max_rates |-> c.max_rates,
                         max_running_minutes |-> c.max_running_minutes,
                         strategy_metrics |-> c.strategy_metrics]]

\* _async_finalize_cycle without the return of lines 724-725
finalize_cycle_unguarded(c, t, hvac_action) ==
    LET state == c.dab_state[t]
        stats == c.cycle_stats[t]
        c0 == [c EXCEPT !.pending_finalize = @ \ {t}, !.dab_state[t] = NoCycle]
        total_seconds == now - state.started_running
        prev_max == IF c.max_running_minutes[t] = NoneRat
                    THEN Rat(max_minutes_to_setpoint, 60)
                    ELSE c.max_running_minutes[t]
        c1 == [c0 EXCEPT !.cycle_stats[t] = NoStats,
                         !.max_running_minutes[t] =
                             rolling_average(prev_max, Rat(total_seconds, 60), RatInt(1), 6)]
        c2 == FinalizeVents(c1, [r \in {RoomName(v) : v \in Vents} |-> None],
                            t, hvac_action, grouped(t), total_seconds)
    IN IF ~c.data.loaded THEN [c1 EXCEPT !.empty_finalizes = @ \cup {t}]
       ELSE [save_state(FinalizeMetrics(c2, t, hvac_action, stats))
               EXCEPT !.empty_finalizes = @ \cup {t}]

\* The whole of _async_finalize_cycle.  With no snapshot in self.data the
\* first read of line 748 raises, after the update of lines 737-742.
finalize_cycle(c, t, hvac_action) ==
    LET state == c.dab_state[t]
        stats == c.cycle_stats[t]
        c0 == [c EXCEPT !.pending_finalize = @ \ {t}, !.dab_state[t] = NoCycle]
        total_seconds == now - state.started_running
        prev_max == IF c.max_running_minutes[t] = NoneRat
                    THEN Rat(max_minutes_to_setpoint, 60)
                    ELSE c.max_running_minutes[t]
        c1 == [c0 EXCEPT !.cycle_stats[t] = NoStats,
                         !.max_running_minutes[t] =
                             rolling_average(prev_max, Rat(total_seconds, 60), RatInt(1), 6)]
        c2 == FinalizeVents(c1, [r \in {RoomName(v) : v \in Vents} |-> None],
                            t, hvac_action, grouped(t), total_seconds)
    IN IF state = NoCycle THEN [c0 EXCEPT !.empty_finalizes = @ \cup {t}]
       ELSE IF ~c.data.loaded THEN c1
       ELSE save_state(FinalizeMetrics(c2, t, hvac_action, stats))

\* ------------------------------------------------------------------------
\* Bounds of the coordinator model

\* finalize tasks that can exist at once per thermostat
MaxSlots == 2
\* steps of the clock
MaxTicks == 2
\* steps of the clock when two whole cycles are followed
MaxLongTicks == 4
\* cycles a thermostat starts
MaxCycles == 2

\* ------------------------------------------------------------------------
\* Initial states

\* no other function of dab.py is being called
NoCall == [fn |-> "", args |-> <<>>, result |-> NoneRat, done |-> FALSE]

\* no call of adjust_for_minimum_airflow is being examined
AirflowIdle ==
    /\ af_mode = "heating"
    /\ af_temps = <<>>
    /\ af_input = <<>>
    /\ af_conv = 0
    /\ af_result = NoResult
    /\ af_pc = "off"
    /\ dab_call = NoCall

\* FlairCoordinator.__init__ (coordinator.py:72-94) followed by
\* async_setup_thermostat_listeners; the Store is empty
CoordinatorSetUp(enabled) ==
    /\ dab_enabled = enabled
    /\ data = NoData
    /\ last_hvac_action = [t \in Thermostats |-> "none"]
    /\ dab_state = [t \in Thermostats |-> NoCycle]
    /\ cycle_stats = [t \in Thermostats |-> NoStats]
    /\ vent_starting_temps = [v \in Vents |-> None]
    /\ vent_starting_open = [v \in Vents |-> None]
    /\ vent_last_commanded = [v \in Vents |-> None]
    /\ vent_last_target = [v \in Vents |-> None]
    /\ pending_finalize = {}
    /\ vent_rates = [v \in Vents |-> [cooling |-> 0, heating |-> 0]]
    /\ max_rates = [cooling |-> 0, heating |-> 0]
    /\ max_running_minutes = [t \in Thermostats |-> NoneRat]
    /\ vent_models = [v \in Vents |-> [cooling |-> NoModel, heating |-> NoModel]]
    /\ strategy_metrics = [s \in {control_strategy} |-> NoMetrics]
    /\ store = [vent_rates |-> vent_rates, max_rates |-> max_rates,
                max_running_minutes |-> max_running_minutes,
                strategy_metrics |-> strategy_metrics]
    /\ unsub_thermostat_listeners = Thermostats
    /\ tasks = [t \in Thermostats |-> [i \in 1..MaxSlots |-> NoTask]]
    /\ poll = NoPoll
    /\ api_calls = <<>>
    /\ saves = NoSaves
    /\ flair_api = NewFlairApi
    /\ cover = NewCover
    /\ direct = NoDirect
    /\ empty_finalizes = {}
    /\ cycle_no = [t \in Thermostats |-> 0]
    /\ start_temp_cycle = [v \in Vents |-> 0]
    /\ start_open_cycle = [v \in Vents |-> 0]
    /\ polls = 0

\* DAB is enabled in the options of the entry
CoordinatorInit == CoordinatorSetUp(TRUE)

\* the thermostats are idle and have a setpoint of 20 degrees
EnvInit ==
    /\ now = 0
    /\ ticks = 0
    /\ hvac = [t \in Thermostats |-> "none"]
    /\ target_temp = [t \in Thermostats |-> 200]
    /\ initial_efficiency_percent = DEFAULT_INITIAL_EFFICIENCY_PERCENT
    /\ unloaded = FALSE

\* ------------------------------------------------------------------------
\* Steps of the environment

\* the clock advances by step seconds
Tick(step) ==
    /\ ticks < MaxTicks
    /\ now' = now + step
    /\ ticks' = ticks + 1
    /\ UNCHANGED <<af_vars, hvac, target_temp, unloaded, initial_efficiency_percent, coord_vars>>

\* the same, over the longer run of two whole cycles
TickLong(step) ==
    /\ ticks < MaxLongTicks
    /\ now' = now + step
    /\ ticks' = ticks + 1
    /\ UNCHANGED <<af_vars, hvac, target_temp, unloaded, initial_efficiency_percent, coord_vars>>

\* the thermostat entity of t reports hvac_action a (or becomes unavailable)
ThermostatChange(t, a) ==
    /\ hvac[t] # a
    /\ a \in Active => cycle_no[t] < MaxCycles
    /\ hvac' = [hvac EXCEPT ![t] = a]
    /\ UNCHANGED <<af_vars, now, ticks, target_temp, unloaded, initial_efficiency_percent,
                   coord_vars>>

\* ------------------------------------------------------------------------
\* Steps of the coordinator

\* The update timer of the DataUpdateCoordinator fires: _async_update_data
\* (coordinator.py:152-180) fetches snapshot d and runs to its first await
\* on the API or to its end.  The update interval is positive: the timer
\* does not fire twice at one instant.
PollTimer(d, tg) ==
    /\ ~unloaded
    /\ poll.pc = "idle"
    /\ poll.timer_at # now
    /\ Commit(StartPoll(Cur, TimerOwner, d, tg))
    /\ UNCHANGED <<af_vars, env_vars>>

\* async_set_vent_position returns
ApiReturn ==
    /\ poll.pc = "await_api"
    /\ Commit(ApiOk(Cur))
    /\ UNCHANGED <<af_vars, env_vars>>

\* async_set_vent_position raises FlairApiError (api.py:239-247)
ApiFail ==
    /\ poll.pc = "await_api"
    /\ Commit(ApiRaises(Cur))
    /\ UNCHANGED <<af_vars, env_vars>>

\* finalize_task (coordinator.py:711-714) wakes from asyncio.sleep(30) and
\* awaits async_request_refresh, which the debouncer of the
\* DataUpdateCoordinator answers without a refresh
TaskRefreshDebounced(t, s) ==
    /\ tasks[t][s].pc = "sleep"
    /\ now >= tasks[t][s].wake
    /\ tasks' = [tasks EXCEPT ![t][s].pc = "finalize"]
    /\ UNCHANGED <<af_vars, env_vars, data, last_hvac_action, dab_state, cycle_stats,
                   vent_starting_temps, vent_starting_open, vent_last_commanded,
                   vent_last_target, pending_finalize, vent_rates, max_rates,
                   max_running_minutes, vent_models, strategy_metrics, store,
                   unsub_thermostat_listeners, poll, api_calls, saves, flair_api,
                   cover, dab_enabled, direct, cycle_no, start_temp_cycle,
                   start_open_cycle, polls, empty_finalizes>>

\* the same, and the refresh runs: _async_update_data for the task
TaskRefreshPoll(t, s, d, tg) ==
    /\ tasks[t][s].pc = "sleep"
    /\ now >= tasks[t][s].wake
    /\ poll.pc = "idle"
    /\ Commit(StartPoll([Cur EXCEPT !.tasks[t][s].pc = "refreshing"],
                        [t |-> t, slot |-> s], d, tg))
    /\ UNCHANGED <<af_vars, env_vars>>

\* finalize_task goes on to _async_finalize_cycle and ends
TaskFinalize(t, s) ==
    /\ tasks[t][s].pc = "finalize"
    /\ Commit([finalize_cycle(Cur, t, tasks[t][s].hvac_action)
                  EXCEPT !.tasks[t][s] = NoTask])
    /\ UNCHANGED <<af_vars, env_vars>>

\* async_unload_entry (__init__.py:45-53) calls async_shutdown
\* (coordinator.py:182-186)
Shutdown ==
    /\ ~unloaded
    /\ unloaded' = TRUE
    /\ unsub_thermostat_listeners' = {}
    /\ UNCHANGED <<af_vars, now, ticks, hvac, target_temp, initial_efficiency_percent, data,
                   last_hvac_action,
                   dab_state, cycle_stats, vent_starting_temps, vent_starting_open,
                   vent_last_commanded, vent_last_target, pending_finalize, vent_rates,
                   max_rates, max_running_minutes, vent_models, strategy_metrics,
                   store, tasks, poll, api_calls, saves, flair_api, cover, dab_enabled,
                   direct, cycle_no, start_temp_cycle, start_open_cycle, polls,
                   empty_finalizes>>

\* ------------------------------------------------------------------------
\* Inputs of a poll: what the Flair API reports for each vent (percent-open,
\* room temperature in tenths, room active) and the target the pass computes
\* for it (tenths of a percent)

Reading(o, tmp, act, tgt) == [open |-> o, temp |-> tmp, active |-> act, target |-> tgt]

\* the poll inputs in which every vent v has one of the readings of P[v]
PollInputs(P) ==
    {[d |-> [loaded |-> TRUE,
             open |-> [v \in Vents |-> p[v].open],
             temp |-> [v \in Vents |-> p[v].temp],
             active |-> [v \in Vents |-> p[v].active]],
      tg |-> [v \in Vents |-> p[v].target]] :
        p \in {q \in [Vents -> UNION {P[v] : v \in Vents}] : \A v \in Vents : q[v] \in P[v]}}

\* Readings that exercise the gate while heating towards 20.7 degrees:
\* a large change, a change below min_adjust_percent, the same with a
\* temperature error over the threshold, an inactive closed room given
\* airflow, an unknown position, no change
GateReadings ==
    [v \in Vents |->
        IF v = "v1"
        THEN {Reading(50, 205, TRUE, 1000), Reading(50, 205, TRUE, 525),
              Reading(50, 195, TRUE, 525), Reading(0, 210, FALSE, 50),
              Reading(None, 205, TRUE, 1000), Reading(50, 205, TRUE, 500)}
        ELSE IF v = "v2"
        THEN {Reading(0, 205, TRUE, 1000), Reading(50, 195, TRUE, 525)}
        ELSE {Reading(0, 205, TRUE, 1000)}]

\* Readings that exercise the cycle: a room temperature that is missing,
\* below or at the setpoint
CycleReadings ==
    [v \in Vents |->
        IF v = "v1"
        THEN {Reading(50, 190, TRUE, 1000), Reading(50, None, TRUE, 500)}
        ELSE IF v = "v2"
        THEN {Reading(50, 190, TRUE, 500)}
        ELSE {Reading(0, 190, TRUE, 0)}]

\* ------------------------------------------------------------------------
\* The coordinator with its environment

Init == AirflowIdle /\ EnvInit /\ CoordinatorInit

Next ==
    \/ \E step \in {30, 300} : Tick(step)
    \/ \E t \in {"t1"} : \E a \in {"heating", "cooling", "none"} : ThermostatChange(t, a)
    \/ \E inp \in PollInputs(CycleReadings) : PollTimer(inp.d, inp.tg)
    \/ ApiReturn
    \/ ApiFail
    \/ \E t \in Thermostats : \E s \in 1..MaxSlots : TaskRefreshDebounced(t, s)
    \/ \E t \in Thermostats : \E s \in 1..MaxSlots :
          \E inp \in PollInputs(CycleReadings) : TaskRefreshPoll(t, s, inp.d, inp.tg)
    \/ \E t \in Thermostats : \E s \in 1..MaxSlots : TaskFinalize(t, s)
    \/ Shutdown

Spec == Init /\ [][Next]_vars

\* ------------------------------------------------------------------------
\* Calls of adjust_for_minimum_airflow on bounded inputs

AirflowInputs(n) == [1..n -> TempChoices] \X [1..n -> TargetChoices]

InitAirflow ==
    /\ af_mode \in Modes
    /\ af_conv \in 0..MaxConventional
    /\ \E n \in 0..MaxManagedVents : \E inp \in AirflowInputs(n) :
          /\ af_temps = inp[1]
          /\ af_input = inp[2]
    /\ af_result = NoResult
    /\ af_pc = "ready"
    /\ dab_call = NoCall
    /\ EnvInit
    /\ CoordinatorInit

AirflowCall ==
    /\ af_pc = "ready"
    /\ af_result' = adjust_for_minimum_airflow(af_temps, af_mode, af_input, af_conv)
    /\ af_pc' = "done"
    /\ UNCHANGED <<af_mode, af_temps, af_input, af_conv, dab_call, env_vars, coord_vars>>

NextAirflow == AirflowCall

SpecAirflow == InitAirflow /\ [][NextAirflow]_vars

\* mean open percent after the call, times the number of vents and Scale
CombinedFlowSum == SeqSum(af_result.targets)
                     + af_conv * standard_vent_default_open * Scale(af_temps)

\* the floor min_combined_vent_flow in the same unit
FloorSum == min_combined_vent_flow * (Len(af_temps) + af_conv) * Scale(af_temps)

\* C4 as stated: after adjust_for_minimum_airflow returns for a non-empty set
\* of managed vents, the mean open percent over all vents (conventional vents
\* counted at 50) is at least min_combined_vent_flow.
C4_MeanAtLeastFloor ==
    af_pc = "done" => CombinedFlowSum >= FloorSum

\* C4 amended: the mean open percent is at least min_combined_vent_flow
\* unless the redistribution loop ran all max_iterations of its passes.
C4_MeanAtLeastFloorUnlessCapped ==
    af_pc = "done" =>
        \/ CombinedFlowSum >= FloorSum
        \/ af_result.iterations = max_iterations

\* C4 witness: a call that had a deficit, redistributed and reached the floor
\* before the cap
C4_RedistributedToFloor ==
    /\ af_pc = "done"
    /\ af_result.iterations >= 1
    /\ af_result.iterations < max_iterations
    /\ CombinedFlowSum >= FloorSum

\* C5 as stated: for targets all within [0, 100], no returned target of
\* adjust_for_minimum_airflow is above 100.
C5_NoVentAbove100 ==
    af_pc = "done" =>
        \A i \in 1..Len(af_temps) : af_result.targets[i] <= 100 * Scale(af_temps)

\* ------------------------------------------------------------------------
\* The adjustment gate: both thermostats are heating when the coordinator
\* starts, the readings of the polls exercise every branch of the gate, the
\* API calls return or raise

InitGate ==
    /\ AirflowIdle
    /\ CoordinatorInit
    /\ now = 0
    /\ ticks = 0
    /\ hvac = [t \in Thermostats |-> "heating"]
    /\ target_temp = [t \in Thermostats |-> 200]
    /\ initial_efficiency_percent = DEFAULT_INITIAL_EFFICIENCY_PERCENT
    /\ unloaded = FALSE

NextGate ==
    \/ \E step \in {30} : Tick(step)
    \/ \E inp \in PollInputs(GateReadings) : PollTimer(inp.d, inp.tg)
    \/ ApiReturn
    \/ ApiFail

SpecGate == InitGate /\ [][NextGate]_vars

\* a poll has run and is over
PollOver == polls > 0 /\ poll.pc = "idle"

\* the adjustment pass of the latest poll that handled vent v
PassOf(v) == poll.passes[ThermostatOf(v)]

\* a set_vent_position call was made for v in the latest poll
Commanded(v) == \E i \in 1..Len(api_calls) : api_calls[i].vent = v

\* a set_vent_position call of the latest poll raised
SomeCommandFailed == \E i \in 1..Len(api_calls) : api_calls[i].result = "failed"

\* what the statements about the gate speak of, for vent v in its pass
CurrentPercent(v) == poll.data.open[v]
RoundedTarget(v) == round_to_nearest_multiple(PassOf(v).targets[v], granularity)
TempErrorOverThreshold(v) ==
    /\ poll.data.temp[v] # None
    /\ IF PassOf(v).hvac_action = "cooling"
       THEN poll.data.temp[v] - PassOf(v).setpoint >= temp_error_override
       ELSE PassOf(v).setpoint - poll.data.temp[v] >= temp_error_override
InactiveReopened(v) ==
    close_inactive /\ ~poll.data.active[v] /\ RoundedTarget(v) > 0
LargeEnough(v) == Abs(RoundedTarget(v) - CurrentPercent(v)) >= min_adjust_percent
CommandedRecently(v) ==
    /\ PassOf(v).last_before[v] # None
    /\ PassOf(v).now - PassOf(v).last_before[v] < min_adjust_interval * 60

\* C1: in an adjustment pass, for a vent whose current percent is known and
\* for which neither override holds, a command is emitted if and only if the
\* rounded target differs from the current percent, the difference is at
\* least min_adjustment_percent and the vent was not commanded less than
\* min_adjustment_interval minutes before the pass.
C1_GateDebounce ==
    PollOver =>
        \A v \in Vents :
            (/\ PassOf(v).ran
             /\ CurrentPercent(v) # None
             /\ ~TempErrorOverThreshold(v)
             /\ ~InactiveReopened(v))
            => (Commanded(v) <=> (/\ RoundedTarget(v) # CurrentPercent(v)
                                  /\ LargeEnough(v)
                                  /\ ~CommandedRecently(v)))

\* C2: whenever the rounded target differs from the current percent and the
\* temperature error is at least the override threshold, or the room is
\* inactive and given a target above 0, the command is emitted, however
\* small the change and however recent the last command.
C2_OverridesBypassDebounce ==
    PollOver =>
        \A v \in Vents :
            (/\ PassOf(v).ran
             /\ CurrentPercent(v) # None
             /\ RoundedTarget(v) # CurrentPercent(v)
             /\ (TempErrorOverThreshold(v) \/ InactiveReopened(v)))
            => Commanded(v)

\* the gate of the statements above lets a command for v through
GateLetsThrough(v) ==
    /\ CurrentPercent(v) # None
    /\ RoundedTarget(v) # CurrentPercent(v)
    /\ \/ TempErrorOverThreshold(v)
       \/ InactiveReopened(v)
       \/ LargeEnough(v) /\ ~CommandedRecently(v)

\* C3: when the command for one vent raises, the remaining vents of that
\* thermostat still receive their commands in the same pass and the other
\* thermostat groups of the poll are still processed.
C3_FailureIsolation ==
    (PollOver /\ SomeCommandFailed) =>
        /\ \A t \in Thermostats : t \in poll.seen
        /\ \A v \in Vents : (PassOf(v).ran /\ GateLetsThrough(v)) => Commanded(v)

\* ------------------------------------------------------------------------
\* Statements about the cycle of a thermostat (checked under Spec)

VentsOf(t) == {v \in Vents : ThermostatOf(v) = t}

\* the finalize tasks of t that are scheduled and have not run
PendingTasks(t) == {s \in 1..MaxSlots : tasks[t][s] # NoTask}

\* this step runs _async_finalize_cycle for t
FinalizeRuns(t) ==
    \E s \in 1..MaxSlots : tasks[t][s].pc = "finalize" /\ tasks'[t][s] = NoTask

\* this step runs _async_process_thermostat_group for t
Observes(t) == t \in poll'.seen /\ (polls' # polls \/ t \notin poll.seen)

\* C6: a CycleState is created by the Idle->Running observation and destroyed
\* only by the finalize after that cycle's Running->Idle observation, so in
\* every reachable state in which the last observed action of a thermostat
\* is heating or cooling, a CycleState exists for it.
C6_RunningHasCycleState ==
    \A t \in Thermostats : last_hvac_action[t] \in Active => dab_state[t] # NoCycle

\* the learned state and the per-cycle state of t, and its tasks but for
\* the progress of a task through finalize_task
LearnedOf(t) ==
    <<[v \in VentsOf(t) |-> vent_rates[v]], [v \in VentsOf(t) |-> vent_models[v]],
      max_running_minutes[t], max_rates, strategy_metrics, store>>
LearnedOfNext(t) ==
    <<[v \in VentsOf(t) |-> vent_rates'[v]], [v \in VentsOf(t) |-> vent_models'[v]],
      max_running_minutes'[t], max_rates', strategy_metrics', store'>>
CycleOf(t) ==
    <<dab_state[t], cycle_stats[t], t \in pending_finalize,
      [v \in VentsOf(t) |-> <<vent_starting_temps[v], vent_starting_open[v],
                              vent_last_commanded[v], vent_last_target[v]>>],
      [s \in 1..MaxSlots |-> <<tasks[t][s].hvac_action, tasks[t][s].wake>>]>>
CycleOfNext(t) ==
    <<dab_state'[t], cycle_stats'[t], t \in pending_finalize',
      [v \in VentsOf(t) |-> <<vent_starting_temps'[v], vent_starting_open'[v],
                              vent_last_commanded'[v], vent_last_target'[v]>>],
      [s \in 1..MaxSlots |-> <<tasks'[t][s].hvac_action, tasks'[t][s].wake>>]>>

\* C7: in every reachable state each thermostat has at most one pending
\* finalize, and an off-observation that arrives while a finalize is pending
\* for the thermostat schedules nothing and changes no state of the
\* thermostat other than its last observed action.
C7_OnePendingFinalize ==
    /\ [](\A t \in Thermostats : Cardinality(PendingTasks(t)) <= 1)
    /\ [][\A t \in Thermostats :
            (Observes(t) /\ hvac[t] = "none" /\ t \in pending_finalize)
            => (CycleOfNext(t) = CycleOf(t) /\ LearnedOfNext(t) = LearnedOf(t))]_vars

\* C7 witness: the second cycle of t1 has been observed to end while the
\* finalize of its first cycle had not run
C7_OffObservedWhilePending ==
    /\ "t1" \in pending_finalize
    /\ last_hvac_action["t1"] = "none"
    /\ dab_state["t1"].cycle = 2
    /\ max_running_minutes["t1"] = NoneRat

\* the learned rates, regression statistics and max_running_minutes that
\* belong to thermostat t alone
OwnLearnedOf(t) ==
    <<[v \in VentsOf(t) |-> vent_rates[v]], [v \in VentsOf(t) |-> vent_models[v]],
      max_running_minutes[t]>>
OwnLearnedOfNext(t) ==
    <<[v \in VentsOf(t) |-> vent_rates'[v]], [v \in VentsOf(t) |-> vent_models'[v]],
      max_running_minutes'[t]>>

\* C8: between the Running->Idle observation that schedules the finalize of
\* a thermostat and the refresh its finalize task issues, no learned rate,
\* regression statistic or max_running_minutes value of the thermostat
\* changes.
C8_NoLearningWhileSettling ==
    [][\A t \in Thermostats :
          (\E s \in 1..MaxSlots : tasks[t][s].pc = "sleep" /\ tasks'[t][s].pc = "sleep")
          => OwnLearnedOfNext(t) = OwnLearnedOf(t)]_vars

\* Two whole cycles of one thermostat, one after the other: the calls of the
\* API return, the coordinator is not shut down
NextTwoCycles ==
    \/ \E step \in {30} : TickLong(step)
    \/ \E t \in {"t1"} : \E a \in {"heating", "none"} : ThermostatChange(t, a)
    \/ \E inp \in PollInputs(CycleReadings) : PollTimer(inp.d, inp.tg)
    \/ ApiReturn
    \/ \E t \in Thermostats : \E s \in 1..MaxSlots : TaskRefreshDebounced(t, s)
    \/ \E t \in Thermostats : \E s \in 1..MaxSlots :
          \E inp \in PollInputs(CycleReadings) : TaskRefreshPoll(t, s, inp.d, inp.tg)
    \/ \E t \in Thermostats : \E s \in 1..MaxSlots : TaskFinalize(t, s)

SpecTwoCycles == Init /\ [][NextTwoCycles]_vars

\* vent v reaches line 753 in a finalize of t and its rate is computed from
\* its starting temperature: no earlier vent of its room can have set the
\* rate of the room
ReadsStartTemp(t, v) ==
    /\ v \in VentsOf(t)
    /\ data.loaded
    /\ vent_starting_temps[v] # None
    /\ data.temp[v] # None
    /\ \A i, j \in 1..Len(grouped(t)) :
          LET u == grouped(t)[i]
          IN (i < j /\ grouped(t)[j] = v /\ RoomName(u) = RoomName(v))
             => (vent_starting_temps[u] = None \/ data.temp[u] = None)

\* C9: the starting temperature and starting open percent that a finalize
\* uses for a vent are the values captured at the start of the cycle it
\* finalizes, never values left over from an earlier cycle.  (Stated for a
\* finalize about to run on the CycleState of the cycle whose end scheduled
\* it.)
C9_StartValuesOfThisCycle ==
    \A t \in Thermostats :
        (\E s \in 1..MaxSlots : /\ tasks[t][s].pc = "finalize"
                                /\ dab_state[t] # NoCycle
                                /\ tasks[t][s].cycle = dab_state[t].cycle)
        => \A v \in Vents :
              ReadsStartTemp(t, v)
              => /\ start_temp_cycle[v] = dab_state[t].cycle
                 /\ start_open_cycle[v] = dab_state[t].cycle

\* C10: after async_shutdown no finalize runs, and no learned rate,
\* regression statistic, ceiling or persisted state is modified by a
\* finalize that was pending at shutdown time.
C10_NoFinalizeAfterShutdown ==
    [][unloaded =>
          \A t \in Thermostats :
              /\ ~FinalizeRuns(t)
              /\ FinalizeRuns(t) => LearnedOfNext(t) = LearnedOf(t)]_vars


\* ------------------------------------------------------------------------
\* Statements about the learned rates

\* this step runs _async_finalize_cycle for some thermostat
SomeFinalizeRuns == \E t \in Thermostats : FinalizeRuns(t)

\* C11: the stored per-vent rates are mutated only by a cycle finalize: a
\* step in which no finalize runs, an adjustment pass among them, leaves
\* every stored cooling and heating rate unchanged.
C11_RatesChangeOnlyAtFinalize ==
    [][~SomeFinalizeRuns => vent_rates' = vent_rates]_vars


\* The coordinator configured with any initial efficiency, over cycles of
\* one thermostat that end with the room short of the setpoint, at it, or
\* with the vent closed
EfficiencyChoices == {0, 50, 100}

RateReadings ==
    [v \in Vents |->
        IF v = "v1"
        THEN {Reading(50, 190, TRUE, 1000), Reading(50, 210, TRUE, 500),
              Reading(0, 190, TRUE, 0)}
        ELSE IF v = "v2"
        THEN {Reading(50, 190, TRUE, 500)}
        ELSE {Reading(0, 190, TRUE, 0)}]

InitRates ==
    /\ AirflowIdle
    /\ CoordinatorInit
    /\ now = 0
    /\ ticks = 0
    /\ hvac = [t \in Thermostats |-> "none"]
    /\ target_temp = [t \in Thermostats |-> 200]
    /\ initial_efficiency_percent \in EfficiencyChoices
    /\ unloaded = FALSE

NextRates ==
    \/ \E step \in {30, 300} : Tick(step)
    \/ \E t \in {"t1"} : \E a \in {"heating", "none"} : ThermostatChange(t, a)
    \/ \E inp \in PollInputs(RateReadings) : PollTimer(inp.d, inp.tg)
    \/ ApiReturn
    \/ \E t \in Thermostats : \E s \in 1..MaxSlots : TaskRefreshDebounced(t, s)
    \/ \E t \in Thermostats : \E s \in 1..MaxSlots :
          \E inp \in PollInputs(RateReadings) : TaskRefreshPoll(t, s, inp.d, inp.tg)
    \/ \E t \in Thermostats : \E s \in 1..MaxSlots : TaskFinalize(t, s)

SpecRates == InitRates /\ [][NextRates]_vars

\* C12: in every reachable state every stored per-vent rate, cooling and
\* heating, is >= 0, whatever initial-efficiency percent in 0..100 is
\* configured.
C12_RatesNonNegative ==
    \A v \in Vents : \A mode \in Modes : vent_rates[v][mode] >= 0


\* this step is the _async_finalize_cycle of task s of t and finds a
\* CycleState and a snapshot
FinalizeStep(t, s) ==
    /\ tasks[t][s].pc = "finalize"
    /\ tasks'[t][s] = NoTask
    /\ dab_state[t] # NoCycle
    /\ data.loaded

\* percent_open of line 758 for vent v
StartOpen(v) ==
    IF vent_starting_open[v] # None THEN vent_starting_open[v]
    ELSE IF data.open[v] = None THEN 0 ELSE data.open[v]

\* the rate inference of lines 763-770 for vent v in the finalize of task s
InferredRate(t, s, v) ==
    calculate_room_change_rate(vent_starting_temps[v], data.temp[v],
                               now - dab_state[t].started_running, StartOpen(v),
                               RateRat(vent_rates[v][RateProp(tasks[t][s].hvac_action)]))

\* the room of v is at its setpoint when task s finalizes
RoomReachedSetpoint(t, s, v) ==
    /\ get_thermostat_setpoint(t, tasks[t][s].hvac_action) # None
    /\ has_room_reached_setpoint(tasks[t][s].hvac_action,
                                 get_thermostat_setpoint(t, tasks[t][s].hvac_action),
                                 data.temp[v])

\* the rate stored when observation obs is averaged into the rate of v
StoredAfter(t, s, v, obs) ==
    Cleaned(rolling_average(RateRat(vent_rates[v][RateProp(tasks[t][s].hvac_action)]),
                            obs, Rat(StartOpen(v), 100), 4))

\* C13: at finalize, when the rate inference returns no data for a vent: if
\* the room reached its setpoint the stored rate afterwards equals the prior
\* rate, whatever it is; otherwise if the vent was open the floor rate is the
\* new observation; otherwise, if the vent was closed and has no prior rate,
\* the new observation is 10% of the ceiling of the mode.
C13_NoDataFallbacks ==
    [][\A t \in Thermostats : \A s \in 1..MaxSlots : \A v \in Vents :
          LET mode == RateProp(tasks[t][s].hvac_action)
          IN (FinalizeStep(t, s) /\ ReadsStartTemp(t, v) /\ InferredRate(t, s, v).n <= 0)
             => /\ RoomReachedSetpoint(t, s, v)
                   => vent_rates'[v][mode] = vent_rates[v][mode]
                /\ (~RoomReachedSetpoint(t, s, v) /\ StartOpen(v) > 0)
                   => vent_rates'[v][mode] =
                         StoredAfter(t, s, v, RateRat(min_temp_change_rate))
                /\ (~RoomReachedSetpoint(t, s, v) /\ StartOpen(v) <= 0
                    /\ vent_rates[v][mode] = 0)
                   => vent_rates'[v][mode] =
                         StoredAfter(t, s, v, RatMul(RateRat(max_rates[mode]), Rat(1, 10)))]_vars


\* v is the first vent of its room in the vent list of t
FirstOfRoom(t, v) ==
    /\ v \in VentsOf(t)
    /\ \A i, j \in 1..Len(grouped(t)) :
          (i < j /\ grouped(t)[j] = v) => RoomName(grouped(t)[i]) # RoomName(v)

\* the finalize of task s stores a newly learned rate for vent v
RateUpdated(t, s, v) ==
    /\ vent_starting_temps[v] # None
    /\ data.temp[v] # None
    /\ \/ InferredRate(t, s, v).n > 0
       \/ FallbackRate(Cur, t, tasks[t][s].hvac_action, data.temp[v], StartOpen(v),
                       vent_rates[v][RateProp(tasks[t][s].hvac_action)]) # NoneRat

\* C14: in a finalize that updates the first listed vent of a room, every
\* later vent of the thermostat with the same room name ends with exactly the
\* rate newly stored for that vent and gets no regression sample, so all
\* vents of the room hold the same rate for the mode.
C14_SharedRoomSharesRate ==
    [][\A t \in Thermostats : \A s \in 1..MaxSlots : \A v, u \in Vents :
          LET mode == RateProp(tasks[t][s].hvac_action)
          IN (/\ FinalizeStep(t, s)
              /\ FirstOfRoom(t, v) /\ RateUpdated(t, s, v)
              /\ u \in VentsOf(t) /\ u # v /\ RoomName(u) = RoomName(v))
             => /\ vent_rates'[u][mode] = vent_rates'[v][mode]
                /\ vent_models'[u] = vent_models[u]]_vars

\* a finalize gave v1 a learned rate and a regression sample, and v2, in the
\* same room, holds the same rate without a sample of its own
C14_SecondVentCopied ==
    /\ vent_rates["v1"]["heating"] # initial_rate
    /\ vent_rates["v1"]["heating"] > 0
    /\ vent_rates["v2"]["heating"] = vent_rates["v1"]["heating"]
    /\ vent_models["v1"]["heating"].n > 0
    /\ vent_models["v2"]["heating"].n = 0
    /\ vent_starting_open["v2"] # None /\ vent_starting_open["v2"] > 0


\* A restart of Home Assistant: a fresh FlairCoordinator (__init__,
\* coordinator.py:72-125) followed by async_initialize (coordinator.py:127-136)
\* on the Store content c.store; stored.get("vent_models", {}) finds no such
\* key in what _async_save_state wrote.  poll.timer_at is kept: the
\* refresh timer fires once per instant of the clock.
async_initialize(c) ==
    [c EXCEPT !.data = NoData,
              !.last_hvac_action = [t \in Thermostats |-> "none"],
              !.dab_state = [t \in Thermostats |-> NoCycle],
              !.cycle_stats = [t \in Thermostats |-> NoStats],
              !.vent_starting_temps = [v \in Vents |-> None],
              !.vent_starting_open = [v \in Vents |-> None],
              !.vent_last_commanded = [v \in Vents |-> None],
              !.vent_last_target = [v \in Vents |-> None],
              !.pending_finalize = {},
              !.vent_rates = c.store.vent_rates,
              !.max_rates = c.store.max_rates,
              !.max_running_minutes = c.store.max_running_minutes,
              !.vent_models = [v \in Vents |-> [cooling |-> NoModel, heating |-> NoModel]],
              !.strategy_metrics = c.store.strategy_metrics,
              !.unsub_thermostat_listeners = Thermostats,
              !.tasks = [t \in Thermostats |-> [i \in 1..MaxSlots |-> NoTask]],
              !.poll = [NoPoll EXCEPT !.timer_at = c.poll.timer_at],
              !.api_calls = <<>>,
              !.saves = NoSaves,
              !.flair_api = NewFlairApi,
              !.cover = NewCover,
              !.direct = NoDirect,
              !.start_temp_cycle = [v \in Vents |-> 0],
              !.start_open_cycle = [v \in Vents |-> 0]]

\* the process is restarted: async_setup_entry (__init__.py:24-34) builds
\* and initializes a new coordinator
Restart ==
    /\ Commit(async_initialize(Cur))
    /\ unloaded' = FALSE
    /\ UNCHANGED <<af_vars, now, ticks, hvac, target_temp, initial_efficiency_percent>>

NextRestart ==
    \/ \E step \in {30, 300} : Tick(step)
    \/ \E t \in {"t1"} : \E a \in {"heating", "none"} : ThermostatChange(t, a)
    \/ \E inp \in PollInputs(RateReadings) : PollTimer(inp.d, inp.tg)
    \/ ApiReturn
    \/ \E t \in Thermostats : \E s \in 1..MaxSlots : TaskRefreshDebounced(t, s)
    \/ \E t \in Thermostats : \E s \in 1..MaxSlots :
          \E inp \in PollInputs(RateReadings) : TaskRefreshPoll(t, s, inp.d, inp.tg)
    \/ \E t \in Thermostats : \E s \in 1..MaxSlots : TaskFinalize(t, s)
    \/ Restart

SpecRestart == InitRates /\ [][NextRestart]_vars

\* the Store holds what _async_save_state writes for the current fields
Saved ==
    store = save_state(Cur).store

\* C15: a save followed by a fresh initialize restores everything a finalize
\* updates: rates, ceilings, max_running_minutes, regression statistics and
\* strategy metrics are the same after the restart as before it.
C15_RestartRestoresLearned ==
    [][(Saved /\ Restart)
       => /\ vent_rates' = vent_rates
          /\ max_rates' = max_rates
          /\ max_running_minutes' = max_running_minutes
          /\ vent_models' = vent_models
          /\ strategy_metrics' = strategy_metrics]_vars


\* ------------------------------------------------------------------------
\* Efficiency export and import (coordinator.py:1109-1235)

\* room id of each vent (vent["room"]["id"])
RoomId(v) == IF v = "v3" THEN "room3" ELSE "room1"

\* a value of a payload for which float(value) raises, such as "abc"
NotANumber == -8888

\* _coerce_rate (coordinator.py:1396-1405)
coerce_rate(value) ==
    IF value = None THEN None
    ELSE IF value = NotANumber THEN None
    ELSE IF value < 0 THEN None
    ELSE value

\* str(room_name).lower() on the room names of the payloads and the vents
Lower(name) == IF name = "R1" THEN "r1" ELSE IF name = "R3" THEN "r3" ELSE name

\* room_by_id[room_id] and room_by_name[name] of lines 1171-1180, in the
\* order of self.data["vents"]; <<>> for a missing key
room_by_id(room_id) == SelectSeq(VentOrder, LAMBDA v : RoomId(v) = room_id)
room_by_name(name) == SelectSeq(VentOrder, LAMBDA v : Lower(RoomName(v)) = name)

\* An entry of roomEfficiencies: a dict with its ventId, roomId, roomName
\* ("" when absent) and rates, or something that is not a dict
Entry(vent_id, room_id, room_name, cooling, heating) ==
    [dict |-> TRUE, ventId |-> vent_id, roomId |-> room_id, roomName |-> room_name,
     coolingRate |-> cooling, heatingRate |-> heating]
NotADict == [dict |-> FALSE, ventId |-> "", roomId |-> "", roomName |-> "",
             coolingRate |-> None, heatingRate |-> None]

\* Lines 1192-1207: the vent an entry resolves to, "" for none
target_vent(entry, used_vents) ==
    IF entry.ventId # "" /\ entry.ventId \in Vents THEN entry.ventId
    ELSE LET by_id == IF entry.roomId # "" THEN room_by_id(entry.roomId) ELSE <<>>
             candidates == IF by_id = <<>> /\ entry.roomName # ""
                           THEN room_by_name(Lower(entry.roomName))
                           ELSE by_id
             unused == SelectSeq(candidates, LAMBDA v : v \notin used_vents)
         IN IF unused # <<>> THEN Head(unused)
            ELSE IF candidates # <<>> THEN Head(candidates)
            ELSE ""

\* One turn of the loop of lines 1186-1229.  r holds the coordinator c, the
\* set used_vents, the counters, and the sequence of targets of the entries
\* applied so far.
import_entry(r, entry) ==
    LET target == target_vent(entry, r.used_vents)
        cooling_rate == coerce_rate(entry.coolingRate)
        heating_rate == coerce_rate(entry.heatingRate)
        skipped == [r EXCEPT !.unmatched = @ + 1]
    IN IF ~entry.dict THEN skipped
       ELSE IF target = "" THEN skipped
       ELSE IF cooling_rate = None /\ heating_rate = None THEN skipped
       ELSE [r EXCEPT !.c.vent_rates[target] =
                         [cooling |-> IF cooling_rate # None THEN cooling_rate ELSE @.cooling,
                          heating |-> IF heating_rate # None THEN heating_rate ELSE @.heating],
                      !.used_vents = @ \cup {target},
                      !.applied = @ + 1,
                      !.targets = Append(@, target)]

RECURSIVE import_entries(_, _)
import_entries(r, entries) ==
    IF entries = <<>> THEN r
    ELSE import_entries(import_entry(r, Head(entries)), Tail(entries))

\* A payload: whether it is a JSON object, whether its efficiencyData section
\* is a dict, whether roomEfficiencies is a list, the globalRates and the
\* entries
Payload(global_cooling, global_heating, entries) ==
    [object |-> TRUE, section |-> TRUE, list |-> TRUE,
     maxCoolingRate |-> global_cooling, maxHeatingRate |-> global_heating,
     roomEfficiencies |-> entries]

\* lines 1148-1157: the payloads for which async_import_efficiency raises
Raises(payload) == ~payload.object \/ ~payload.section \/ ~payload.list

\* async_import_efficiency (coordinator.py:1146-1235) when it does not raise
\* and self.data holds a snapshot: the coordinator afterwards, the counts it
\* returns, and the targets of the applied entries
import_efficiency(c, payload) ==
    LET cooling_rate == coerce_rate(payload.maxCoolingRate)
        heating_rate == coerce_rate(payload.maxHeatingRate)
        c1 == [c EXCEPT !.max_rates =
                  [cooling |-> IF cooling_rate # None THEN cooling_rate ELSE @.cooling,
                   heating |-> IF heating_rate # None THEN heating_rate ELSE @.heating]]
        r == import_entries([c |-> c1, used_vents |-> {}, applied |-> 0,
                             unmatched |-> 0, targets |-> <<>>],
                            payload.roomEfficiencies)
    IN [r EXCEPT !.c = save_state(r.c)]

\* build_efficiency_export (coordinator.py:1109-1144): one entry per vent
\* that has an entry in _vent_rates (a vent without one reads as 0.0 in both
\* modes), and the two ceilings
build_efficiency_export(c) ==
    LET stored == SelectSeq(VentOrder,
                            LAMBDA v : c.vent_rates[v] # [cooling |-> 0, heating |-> 0])
    IN Payload(c.max_rates["cooling"], c.max_rates["heating"],
               [i \in 1..Len(stored) |->
                   Entry(stored[i],
                         IF c.data.loaded THEN RoomId(stored[i]) ELSE "",
                         IF c.data.loaded THEN RoomName(stored[i]) ELSE "",
                         c.vent_rates[stored[i]]["cooling"],
                         c.vent_rates[stored[i]]["heating"])])

\* the payloads given to the import service: an entry by vent id, with and
\* without ceilings above and below the learned ones; a vent id twice; a
\* room id and the room name in another case; three entries for a room of
\* two vents; an entry with rates that are not numbers after a good one; an
\* entry that is not a dict and one for an unknown vent and room; a negative
\* rate; and one payload for each structural error
Payloads ==
    {Payload(None, None, <<Entry("v1", "", "", 400000, None)>>),
     Payload(2000000, None, <<Entry("v1", "", "", 400000, None)>>),
     Payload(300000, None, <<>>),
     Payload(None, None, <<Entry("v1", "", "", 400000, None),
                           Entry("v1", "", "", 600000, None)>>),
     Payload(None, None, <<Entry("", "room1", "", None, 500000),
                           Entry("", "", "R1", 400000, None)>>),
     Payload(None, None, <<Entry("", "room1", "", 400000, None),
                           Entry("", "room1", "", 400000, None),
                           Entry("", "room1", "", 600000, None)>>),
     Payload(None, None, <<Entry("v1", "", "", 600000, None),
                           Entry("v3", "", "", NotANumber, NotANumber)>>),
     Payload(2000000, NotANumber, <<NotADict, Entry("vX", "roomX", "zz", 400000, 400000)>>),
     Payload(None, None, <<Entry("v2", "", "", -1000000, 500000)>>),
     [Payload(2000000, None, <<Entry("v1", "", "", 400000, None)>>) EXCEPT !.object = FALSE],
     [Payload(2000000, None, <<Entry("v1", "", "", 400000, None)>>) EXCEPT !.section = FALSE],
     [Payload(2000000, None, <<Entry("v1", "", "", 400000, None)>>) EXCEPT !.list = FALSE]}

\* readings of a short heating cycle in which the room of v1 and v2 is
\* above the setpoint
ImportReadings ==
    [v \in Vents |->
        IF v = "v3" THEN {Reading(0, 190, TRUE, 0)}
        ELSE {Reading(50, 210, TRUE, 500)}]

\* the import_efficiency service (services.py:278) calls
\* async_import_efficiency with a payload; services are registered after the
\* first refresh, so self.data holds a snapshot
ImportEfficiency(payload) ==
    /\ ~unloaded
    /\ data.loaded
    /\ IF Raises(payload) THEN UNCHANGED coord_vars
       ELSE Commit(import_efficiency(Cur, payload).c)
    /\ UNCHANGED <<af_vars, env_vars>>

\* build_efficiency_export followed by async_import_efficiency of the
\* payload it returned, on the same coordinator
ImportOwnExport ==
    ImportEfficiency(build_efficiency_export(Cur))

NextImport ==
    \/ \E step \in {30} : Tick(step)
    \/ \E t \in {"t1"} : \E a \in {"heating", "none"} : ThermostatChange(t, a)
    \/ \E inp \in PollInputs(ImportReadings) : PollTimer(inp.d, inp.tg)
    \/ \E t \in Thermostats : \E s \in 1..MaxSlots : TaskRefreshDebounced(t, s)
    \/ \E t \in Thermostats : \E s \in 1..MaxSlots :
          \E inp \in PollInputs(ImportReadings) : TaskRefreshPoll(t, s, inp.d, inp.tg)
    \/ \E t \in Thermostats : \E s \in 1..MaxSlots : TaskFinalize(t, s)
    \/ \E payload \in Payloads : ImportEfficiency(payload)
    \/ ImportOwnExport

SpecImport == InitRates /\ [][NextImport]_vars


\* C16: the ceiling of each mode never decreases, whatever finalizes and
\* efficiency imports happen, and after a finalize it is at least every rate
\* that finalize stored for the mode.
C16_CeilingMonotone ==
    [][/\ \A mode \in Modes : max_rates'[mode] >= max_rates[mode]
       /\ \A t \in Thermostats : \A s \in 1..MaxSlots : \A v \in VentsOf(t) :
             LET mode == RateProp(tasks[t][s].hvac_action)
             IN (/\ FinalizeStep(t, s)
                 /\ \/ RateUpdated(t, s, v)
                    \/ vent_rates'[v][mode] # vent_rates[v][mode])
                => max_rates'[mode] >= vent_rates'[v][mode]]_vars


\* C17: within one efficiency import each vent is used at most once: no vent
\* is the target of more than one applied entry, for any list of entries.
C17_EachVentUsedOnce ==
    [][\A payload \in Payloads :
          (ImportEfficiency(payload) /\ ~Raises(payload))
          => LET targets == import_efficiency(Cur, payload).targets
             IN \A i, j \in 1..Len(targets) : i # j => targets[i] # targets[j]]_vars


\* C18: an import of a malformed payload (not an object, a section of the
\* wrong type, or an entry whose rates are not numbers) changes no per-vent
\* rate and no ceiling.
C18_MalformedImportChangesNothing ==
    [][\A payload \in Payloads :
          (/\ ImportEfficiency(payload)
           /\ \/ Raises(payload)
              \/ \E i \in 1..Len(payload.roomEfficiencies) :
                    LET entry == payload.roomEfficiencies[i]
                    IN entry.dict /\ NotANumber \in {entry.coolingRate, entry.heatingRate})
          => vent_rates' = vent_rates /\ max_rates' = max_rates]_vars


\* C19: importing the payload built by build_efficiency_export into an
\* engine that knows the same vents (one without rates, one with other
\* rates, or the exporting engine itself) leaves every exported vent with
\* the cooling and heating rate of the exporting engine and the ceilings
\* equal to the exported ones.
C19_ExportImportRoundTrip ==
    data.loaded =>
        LET payload == build_efficiency_export(Cur)
            engines == {Cur,
                        [Cur EXCEPT !.vent_rates = [v \in Vents |-> [cooling |-> 0, heating |-> 0]],
                                    !.max_rates = [cooling |-> 0, heating |-> 0]],
                        [Cur EXCEPT !.vent_rates = [v \in Vents |-> [cooling |-> 200000,
                                                                     heating |-> 200000]],
                                    !.max_rates = [cooling |-> 900000, heating |-> 900000]]}
        IN \A engine \in engines :
              LET after == import_efficiency(engine, payload).c
              IN /\ \A i \in 1..Len(payload.roomEfficiencies) :
                       after.vent_rates[payload.roomEfficiencies[i].ventId]
                           = vent_rates[payload.roomEfficiencies[i].ventId]
                 /\ after.max_rates = max_rates


\* C20: after an import, every entry that resolves to a known vent and
\* carries a numeric non-negative rate is counted as applied and the vent it
\* resolved to stores the entry's rate for each mode it supplies; a supplied
\* global rate is the ceiling afterwards.
C20_ResolvedEntriesApplied ==
    [][\A payload \in Payloads :
          (ImportEfficiency(payload) /\ ~Raises(payload))
          => LET r == import_efficiency(Cur, payload)
                 resolved == SelectSeq(payload.roomEfficiencies,
                                LAMBDA e : /\ e.dict
                                           /\ target_vent(e, {}) # ""
                                           /\ \/ coerce_rate(e.coolingRate) # None
                                              \/ coerce_rate(e.heatingRate) # None)
             IN /\ r.applied = Len(resolved)
                /\ \A k \in 1..Len(resolved) :
                      /\ coerce_rate(resolved[k].coolingRate) # None
                         => vent_rates'[r.targets[k]]["cooling"] = resolved[k].coolingRate
                      /\ coerce_rate(resolved[k].heatingRate) # None
                         => vent_rates'[r.targets[k]]["heating"] = resolved[k].heatingRate
                /\ coerce_rate(payload.maxCoolingRate) # None
                   => max_rates'["cooling"] = payload.maxCoolingRate
                /\ coerce_rate(payload.maxHeatingRate) # None
                   => max_rates'["heating"] = payload.maxHeatingRate]_vars


\* ------------------------------------------------------------------------
\* Adjustment passes with readings or setpoints that are missing

\* the target temperature attribute of thermostat t appears or disappears
SetpointChange(t, sp) ==
    /\ target_temp[t] # sp
    /\ target_temp' = [target_temp EXCEPT ![t] = sp]
    /\ UNCHANGED <<af_vars, now, ticks, hvac, unloaded, initial_efficiency_percent, coord_vars>>

\* readings of a pass: a vent to be opened, one without a room temperature,
\* one whose position is unknown, one that is where it should be
PassReadings ==
    [v \in Vents |->
        IF v = "v1"
        THEN {Reading(50, 190, TRUE, 1000), Reading(50, None, TRUE, 500),
              Reading(None, 190, TRUE, 1000)}
        ELSE IF v = "v2"
        THEN {Reading(50, 190, TRUE, 500), Reading(0, 190, TRUE, 1000)}
        ELSE {Reading(0, 190, TRUE, 1000)}]

NextPass ==
    \/ \E step \in {30} : Tick(step)
    \/ \E t \in Thermostats : \E sp \in {None, 200} : SetpointChange(t, sp)
    \/ \E inp \in PollInputs(PassReadings) : PollTimer(inp.d, inp.tg)
    \/ ApiReturn
    \/ ApiFail

SpecPass == InitGate /\ [][NextPass]_vars

\* this step takes thermostat t out of grouped in _async_process_dab
GroupProcessed(t) ==
    /\ t \in poll'.seen
    /\ polls' = polls => t \notin poll.seen

\* this step ends a poll
PollEnds ==
    /\ poll'.pc = "idle"
    /\ polls' # polls \/ poll.pc # "idle"

\* C21: when the setpoint of an active thermostat is missing in a poll, the
\* pass of that thermostat is dropped in that poll only: no command for its
\* vents, no change of its rates or last-commanded state, the thermostats
\* after it are still adjusted; and in the next poll, if the thermostat is
\* active and has a setpoint, it is handled and gets its pass.
C21_MissingSetpointSkipsOnePass ==
    [][/\ \A t \in Thermostats :
             (GroupProcessed(t) /\ hvac[t] \in Active
              /\ get_thermostat_setpoint(t, hvac[t]) = None)
             => /\ ~poll'.passes[t].ran
                /\ \A i \in 1..Len(api_calls') : ThermostatOf(api_calls'[i].vent) # t
                /\ \A v \in VentsOf(t) :
                      /\ vent_rates'[v] = vent_rates[v]
                      /\ vent_last_commanded'[v] = vent_last_commanded[v]
                      /\ vent_last_target'[v] = vent_last_target[v]
                /\ \A u \in Thermostats :
                      (u # t /\ u \notin poll'.seen) => poll'.pc # "idle"
       /\ \A t \in Thermostats :
             (GroupProcessed(t) /\ hvac[t] \in Active
              /\ get_thermostat_setpoint(t, hvac[t]) # None)
             => poll'.passes[t].ran
       /\ \A t \in poll'.skipped_before :
             (PollEnds /\ hvac[t] \in Active /\ get_thermostat_setpoint(t, hvac[t]) # None)
             => t \in poll'.seen]_vars


\* C22: a vent whose room temperature or current percent is missing in a
\* poll gets no command in its pass, and the other vents of its thermostat
\* whose command the gate lets through are still commanded.
C22_MissingReadingSkipsVent ==
    \A v \in Vents :
        (PassOf(v).ran /\ (poll.data.temp[v] = None \/ poll.data.open[v] = None))
        => /\ ~Commanded(v)
           /\ PollOver
              => \A u \in VentsOf(ThermostatOf(v)) \ {v} :
                    (poll.data.temp[u] # None /\ GateLetsThrough(u)) => Commanded(u)


\* this step ends the pass of thermostat t: the pass reaches its last line,
\* or a command of the pass raises
PassEnds(t) ==
    /\ poll'.passes[t].ran
    /\ \/ /\ poll'.passes[t].ended
          /\ polls' = polls => ~poll.passes[t].ended
       \/ /\ polls' = polls /\ poll.cur = t /\ poll.pc = "await_api"
          /\ poll'.failed

\* C23: when a pass ends, every vent it commanded has the pass time as its
\* last-commanded time and the commanded rounded target as its last target;
\* the adjustment count and the movement of the cycle have grown by the
\* number of commands and by the sum of |target - current| of the pass; a
\* vent it did not command has its last-commanded time and target unchanged.
C23_PassBookkeeping ==
    [][\A t \in Thermostats :
          PassEnds(t) =>
             LET ps == poll'.passes[t]
                 calls == SelectSeq(api_calls', LAMBDA call : ThermostatOf(call.vent) = t)
                 before == IF ps.stats_before.present THEN ps.stats_before
                           ELSE [NoStats EXCEPT !.present = TRUE]
             IN /\ \A i \in 1..Len(calls) :
                      /\ vent_last_commanded'[calls[i].vent] = ps.now
                      /\ vent_last_target'[calls[i].vent] = calls[i].percent
                      /\ calls[i].percent
                            = round_to_nearest_multiple(ps.targets[calls[i].vent], granularity)
                /\ \A v \in VentsOf(t) :
                      (\A i \in 1..Len(calls) : calls[i].vent # v)
                      => /\ vent_last_commanded'[v] = ps.last_before[v]
                         /\ vent_last_target'[v] = ps.target_before[v]
                /\ cycle_stats'[t].adjustments = before.adjustments + Len(calls)
                /\ cycle_stats'[t].movement
                      = before.movement
                        + SeqSum([i \in 1..Len(calls) |->
                                     Abs(calls[i].percent - poll'.data.open[calls[i].vent])])]_vars


\* ------------------------------------------------------------------------
\* _async_save_state followed through its awaits (coordinator.py:1384-1393):
\* the call waits at `async with self._save_lock`, holds the lock while
\* `await self._store.async_save(...)` is in progress, and releases it

\* the lock of line 92 is held
save_lock_unheeded(sv) == FALSE

save_lock_locked(sv) == sv.lock # 0

\* a caller reaches _async_save_state as call k
call_save_state(c, k, caller) ==
    [c EXCEPT !.saves.pc[k] = "acquire", !.saves.by[k] = caller]

\* the calls of _async_save_state are numbered as they arrive
FreeCall == CHOOSE k \in 1..MaxSavers + 1 :
               /\ k \in 1..MaxSavers => saves.pc[k] = "idle"
               /\ \A j \in 1..k - 1 : saves.pc[j] # "idle"

\* finalize_task runs _async_finalize_cycle up to its last line, the
\* await of _async_save_state (coordinator.py:829), which the early returns
\* of lines 722-724 and the failed read of line 748 never reach
FinalizeSaving(t, s, k) ==
    /\ tasks[t][s].pc = "finalize"
    /\ k = FreeCall
    /\ Commit([finalize_cycle(IF dab_state[t] # NoCycle /\ data.loaded
                               THEN call_save_state(Cur, k, t)
                               ELSE Cur,
                               t, tasks[t][s].hvac_action)
                  EXCEPT !.tasks[t][s] = NoTask, !.store = store])
    /\ UNCHANGED <<af_vars, env_vars>>

\* a payload of the import service that does not raise
SavePayloads ==
    {Payload(2000000, None, <<Entry("v1", "", "", 400000, None)>>)}

\* async_import_efficiency up to its await of _async_save_state
\* (coordinator.py:1231)
ImportSaving(payload, k) ==
    /\ ~unloaded
    /\ data.loaded
    /\ k = FreeCall
    /\ Commit(call_save_state([import_efficiency(Cur, payload).c EXCEPT !.store = store],
                              k, "import"))
    /\ UNCHANGED <<af_vars, env_vars>>

\* `async with self._save_lock` is entered by call k (line 1385) and
\* self._store.async_save is awaited
SaveAcquire(k) ==
    /\ saves.pc[k] = "acquire"
    /\ ~save_lock_locked(saves)
    /\ Commit([Cur EXCEPT !.saves.lock = k, !.saves.pc[k] = "writing"])
    /\ UNCHANGED <<af_vars, env_vars>>

\* the write of call k completes with the four maps as they are now (the
\* dict of lines 1386-1393 refers to them) and the lock is released
SaveDone(k) ==
    /\ saves.pc[k] = "writing"
    /\ Commit([save_state(Cur) EXCEPT !.saves.lock = 0, !.saves.pc[k] = "idle",
                                      !.saves.by[k] = ""])
    /\ UNCHANGED <<af_vars, env_vars>>

NextSave ==
    \/ \E step \in {30} : Tick(step)
    \/ \E t \in Thermostats : \E a \in {"heating", "none"} : ThermostatChange(t, a)
    \/ \E inp \in PollInputs(ImportReadings) : PollTimer(inp.d, inp.tg)
    \/ \E t \in Thermostats : \E s \in 1..MaxSlots : TaskRefreshDebounced(t, s)
    \/ \E t \in Thermostats : \E s \in 1..MaxSlots : \E k \in 1..MaxSavers :
          FinalizeSaving(t, s, k)
    \/ \E payload \in SavePayloads : \E k \in 1..MaxSavers : ImportSaving(payload, k)
    \/ \E k \in 1..MaxSavers : SaveAcquire(k)
    \/ \E k \in 1..MaxSavers : SaveDone(k)

SpecSave == Init /\ [][NextSave]_vars

\* C24: whatever the interleaving of the finalizes of different thermostats
\* and of imports, at most one write of the persisted state to the store is
\* in progress at any time.
C24_OneWriteAtATime ==
    Cardinality({k \in 1..MaxSavers : saves.pc[k] = "writing"}) <= 1

\* the save of one thermostat's finalize is being written while the save of
\* the other thermostat's finalize and the save of an import wait for it
C24_SavesWaitForWrite ==
    \E k, j, i \in 1..MaxSavers :
        /\ saves.pc[k] = "writing" /\ saves.by[k] = "t1"
        /\ saves.pc[j] = "acquire" /\ saves.by[j] = "t2"
        /\ saves.pc[i] = "acquire" /\ saves.by[i] = "import"


\* ------------------------------------------------------------------------
\* the sum of the open percents given to the call, conventional vents at
\* standard_vent_default_open, in the unit of CombinedFlowSum
InputFlowSum == (SeqSum(af_input) + af_conv * standard_vent_default_open) * Scale(af_temps)

\* C25: when the mean open percent over managed and conventional vents
\* already meets the floor, adjust_for_minimum_airflow returns every target
\* as it was given; an empty target map is returned empty for any number of
\* conventional vents.
C25_FloorMetReturnsInput ==
    af_pc = "done" =>
        /\ InputFlowSum >= FloorSum
              => af_result.targets = [i \in 1..Len(af_input) |-> af_input[i] * Scale(af_temps)]
        /\ af_input = <<>> => af_result.targets = <<>>

\* a call with a closed vent among its targets and conventional vents,
\* whose mean meets the floor only because the conventional vents count
C25_FloorMetByConventional ==
    /\ af_pc = "done"
    /\ af_conv > 0
    /\ \E i \in 1..Len(af_input) : af_input[i] = 0
    /\ InputFlowSum >= FloorSum
    /\ SeqSum(af_input) * Scale(af_temps) < FloorSum


\* ------------------------------------------------------------------------
\* adjust_for_minimum_airflow followed pass by pass through its while loop

\* the local variables of the loop (dab.py:243-248), diff_percentage_sum
\* being the target sum less what the vents have now
LoopState == [open |-> af_result.targets, diff |-> FloorSum - CombinedFlowSum,
              iterations |-> af_result.iterations]

\* dab.py:221-246: the sums are taken and the function returns at line 229
\* or 241, or reaches the loop
AirflowEnter ==
    /\ af_pc = "ready"
    /\ af_result' = [targets |-> [i \in 1..Len(af_input) |-> af_input[i] * Scale(af_temps)],
                     iterations |-> 0]
    /\ af_pc' = IF Len(af_input) + af_conv <= 0 \/ InputFlowSum >= FloorSum
                THEN "done" ELSE "loop"
    /\ UNCHANGED <<af_mode, af_temps, af_input, af_conv, dab_call, env_vars, coord_vars>>

\* the while condition holds and the body runs once (dab.py:247-266)
AirflowPass ==
    /\ af_pc = "loop"
    /\ LET st == RedistributeStep(af_mode, af_temps, LoopState)
       IN /\ st # LoopState
          /\ af_result' = [targets |-> st.open, iterations |-> st.iterations]
    /\ UNCHANGED <<af_mode, af_temps, af_input, af_conv, af_pc, dab_call, env_vars,
                   coord_vars>>

\* the while condition fails and the function returns (dab.py:268)
AirflowReturn ==
    /\ af_pc = "loop"
    /\ RedistributeStep(af_mode, af_temps, LoopState) = LoopState
    /\ af_pc' = "done"
    /\ UNCHANGED <<af_mode, af_temps, af_input, af_conv, af_result, dab_call, env_vars,
                   coord_vars>>

NextAirflowLoop == AirflowEnter \/ AirflowPass \/ AirflowReturn

SpecAirflowLoop == InitAirflow /\ [][NextAirflowLoop]_vars

\* C26: adjust_for_minimum_airflow returns for every input: at the head of
\* its redistribution loop the function either returns or runs one more
\* pass, which is counted, and the count never exceeds max_iterations, so
\* that the loop runs at most max_iterations passes.
C26_LoopTerminates ==
    [][af_pc = "loop" =>
          \/ af_pc' = "done"
          \/ /\ af_result'.iterations = af_result.iterations + 1
             /\ af_result'.iterations <= max_iterations]_vars

\* a call returned after all max_iterations passes
C26_ReturnedAtCap ==
    /\ af_pc = "done"
    /\ af_result.iterations = max_iterations


\* C27: when the redistribution loop ran, the sum of all open percents
\* afterwards exceeds floor x (managed + conventional vents) by less than
\* one increment (increment_percentage), and no target is below the target
\* that was given.
C27_OvershootBelowOneIncrement ==
    (af_pc = "done" /\ af_result.iterations >= 1) =>
        /\ 2 * (CombinedFlowSum - FloorSum) < increment_percentage_x2 * Scale(af_temps)
        /\ \A i \in 1..Len(af_input) : af_result.targets[i] >= af_input[i] * Scale(af_temps)

\* a call whose redistribution ended above the floor
C27_EndedAboveFloor ==
    /\ af_pc = "done"
    /\ af_result.iterations >= 1
    /\ CombinedFlowSum > FloorSum
    /\ \E i \in 1..Len(af_input) : af_result.targets[i] > af_input[i] * Scale(af_temps)


\* C28: of two managed vents given the same target, after a redistribution
\* in cooling mode the vent of the hotter room has a target at least as high
\* as the vent of the cooler room, and in heating mode the vent of the
\* colder room has one at least as high as the vent of the warmer room,
\* whatever the order of the vents and the size of the deficit.
C28_FavorsRoomFurthestFromComfort ==
    (af_pc = "done" /\ af_result.iterations >= 1) =>
        \A i, j \in 1..Len(af_input) :
            (/\ af_input[i] = af_input[j]
             /\ IF af_mode = "cooling" THEN af_temps[i] > af_temps[j]
                ELSE af_temps[i] < af_temps[j])
            => af_result.targets[i] >= af_result.targets[j]


\* ------------------------------------------------------------------------
\* calculate_longest_minutes_to_target (dab.py:179-211).  A vent is
\* [rate, temp, active]: the rate in micro-degrees per minute, the
\* temperature and the setpoint in tenths of a degree; minutes are
\* rationals; closing is the close_inactive argument.

\* lines 193-207 for one vent: its minutes to the target, or NoneRat where
\* the loop continues with the next vent
minutes_to_target(vent, hvac_mode, setpoint, max_running_time, closing) ==
    LET raw == Rat(Abs(setpoint - vent.temp) * 100000, vent.rate)
        capped == IF RatLt(RatInt(max_running_time * 2), raw)
                  THEN RatInt(max_running_time) ELSE raw
        minutes == IF vent.rate > 0 THEN capped ELSE RatInt(-1)
    IN IF closing /\ ~vent.active THEN NoneRat
       ELSE IF has_room_reached_setpoint(hvac_mode, setpoint, vent.temp) THEN NoneRat
       ELSE IF vent.rate = 0 THEN NoneRat
       ELSE IF RatLt(RatInt(max_running_time), minutes) THEN RatInt(max_running_time)
       ELSE minutes

RECURSIVE longest_time(_, _, _, _, _, _)
longest_time(longest, vents, hvac_mode, setpoint, max_running_time, closing) ==
    IF vents = <<>> THEN longest
    ELSE LET m == minutes_to_target(Head(vents), hvac_mode, setpoint, max_running_time,
                                    closing)
         IN longest_time(IF m # NoneRat /\ RatLt(longest, m) THEN m ELSE longest,
                         Tail(vents), hvac_mode, setpoint, max_running_time, closing)

calculate_longest_minutes_to_target(vents, hvac_mode, setpoint, max_running_time, closing) ==
    longest_time(RatInt(-1), vents, hvac_mode, setpoint, max_running_time, closing)

\* the vents given to the function: a learned rate, none, or the -1 of a
\* failed measurement; a room below or above the setpoint of 22 degrees
LongestVents ==
    [rate : {0, 500000, 20000, -1000000}, temp : {200, 240}, active : BOOLEAN]

MaxLongestVents == 2

\* a call with one or two vents, in either mode, with a setpoint of 22
\* degrees and a longest cycle of 60 minutes
InitLongest ==
    /\ af_mode = "heating"
    /\ af_temps = <<>>
    /\ af_input = <<>>
    /\ af_conv = 0
    /\ af_result = NoResult
    /\ af_pc = "off"
    /\ \E n \in 1..MaxLongestVents : \E vents \in [1..n -> LongestVents] :
          \E hvac_mode \in Modes : \E close \in BOOLEAN :
             dab_call = [fn |-> "calculate_longest_minutes_to_target",
                         args |-> [vents |-> vents, hvac_mode |-> hvac_mode,
                                   setpoint |-> 220, max_running_time |-> 60,
                                   close_inactive |-> close],
                         result |-> NoneRat, done |-> FALSE]
    /\ EnvInit
    /\ CoordinatorInit

LongestCall ==
    /\ dab_call.fn = "calculate_longest_minutes_to_target"
    /\ ~dab_call.done
    /\ dab_call' = [dab_call EXCEPT
          !.result = calculate_longest_minutes_to_target(
                         dab_call.args.vents, dab_call.args.hvac_mode,
                         dab_call.args.setpoint, dab_call.args.max_running_time,
                         dab_call.args.close_inactive),
          !.done = TRUE]
    /\ UNCHANGED <<af_mode, af_temps, af_input, af_conv, af_result, af_pc, env_vars,
                   coord_vars>>

NextLongest == LongestCall

SpecLongest == InitLongest /\ [][NextLongest]_vars

\* C29: for a single active vent that is not at the setpoint and whose
\* rate is 0, calculate_longest_minutes_to_target returns the horizon 0.
C29_ZeroRateGivesZeroHorizon ==
    (/\ dab_call.fn = "calculate_longest_minutes_to_target"
     /\ dab_call.done
     /\ Len(dab_call.args.vents) = 1
     /\ dab_call.args.vents[1].active
     /\ dab_call.args.vents[1].rate = 0
     /\ ~has_room_reached_setpoint(dab_call.args.hvac_mode, dab_call.args.setpoint,
                                   dab_call.args.vents[1].temp))
    => dab_call.result = RatInt(0)


\* ------------------------------------------------------------------------
\* Calls of calculate_room_change_rate on bounded inputs: a start
\* temperature of 20 degrees, durations from half a minute to two hours,
\* open percents from below 0 to 100, and current rates that are absent,
\* at the floor, learned, at the ceiling, and the -1 of a failed measurement

InitRoomRate ==
    /\ af_mode = "heating"
    /\ af_temps = <<>>
    /\ af_input = <<>>
    /\ af_conv = 0
    /\ af_result = NoResult
    /\ af_pc = "off"
    /\ \E current_temp \in {200, 201, 203, 210, 300} :
          \E total_seconds \in {30, 240, 300, 600, 7200} :
             \E percent_open \in {-5, 0, 10, 29, 30, 100} :
                \E current_rate \in {0, 1000, 500000, 1500000, -1000000} :
                   dab_call = [fn |-> "calculate_room_change_rate",
                               args |-> [last_start_temp |-> 200,
                                         current_temp |-> current_temp,
                                         total_seconds |-> total_seconds,
                                         percent_open |-> percent_open,
                                         current_rate |-> current_rate],
                               result |-> NoneRat, done |-> FALSE]
    /\ EnvInit
    /\ CoordinatorInit

RoomRateCall ==
    /\ dab_call.fn = "calculate_room_change_rate"
    /\ ~dab_call.done
    /\ dab_call' = [dab_call EXCEPT
          !.result = calculate_room_change_rate(
                         dab_call.args.last_start_temp, dab_call.args.current_temp,
                         dab_call.args.total_seconds, dab_call.args.percent_open,
                         RateRat(dab_call.args.current_rate)),
          !.done = TRUE]
    /\ UNCHANGED <<af_mode, af_temps, af_input, af_conv, af_result, af_pc, env_vars,
                   coord_vars>>

NextRoomRate == RoomRateCall

SpecRoomRate == InitRoomRate /\ [][NextRoomRate]_vars

\* C30: calculate_room_change_rate returns -1 whenever the cycle ran less
\* than min_minutes_to_setpoint or less than min_runtime_for_rate_calc or
\* the vent was not open, and every result is -1 or lies between
\* min_temp_change_rate and max_temp_change_rate.
C30_RateIsNoDataOrWithinBounds ==
    (dab_call.fn = "calculate_room_change_rate" /\ dab_call.done) =>
        /\ (\/ dab_call.args.total_seconds < min_minutes_to_setpoint
            \/ dab_call.args.total_seconds < min_runtime_for_rate_calc
            \/ dab_call.args.percent_open <= 0)
           => dab_call.result = RatInt(-1)
        /\ \/ dab_call.result = RatInt(-1)
           \/ /\ RatLe(RateRat(min_temp_change_rate), dab_call.result)
              /\ RatLe(dab_call.result, RateRat(max_temp_change_rate))

\* a measured rate strictly between the floor and the ceiling was returned
C30_MeasuredRateReturned ==
    /\ dab_call.fn = "calculate_room_change_rate"
    /\ dab_call.done
    /\ dab_call.args.total_seconds >= min_runtime_for_rate_calc
    /\ dab_call.args.percent_open > 0
    /\ RatLt(RateRat(min_temp_change_rate), dab_call.result)
    /\ RatLt(dab_call.result, RateRat(max_temp_change_rate))


\* ------------------------------------------------------------------------
\* The regression fit of a vent and mode (coordinator.py:418-434) over the
\* sums that the finalizes accumulate (coordinator.py:798-809)

\* the None of _get_model_params
NoParams == [slope |-> NoneRat, intercept |-> NoneRat]

\* _get_model_params for the stats of one vent and mode; stats that are
\* absent read as NoModel
get_model_params(stats) ==
    LET n == stats.n
        denom == n * stats.sum_xx - stats.sum_x * stats.sum_x
        slope == RatDiv(RatSub(RatMul(RatInt(n), stats.sum_xy),
                               RatMul(RatInt(stats.sum_x), stats.sum_y)),
                        RatInt(denom))
        intercept == RatDiv(RatSub(stats.sum_y, RatMul(slope, RatInt(stats.sum_x))),
                            RatInt(n))
    IN IF n < 2 THEN NoParams
       ELSE IF denom = 0 THEN NoParams
       ELSE [slope |-> slope, intercept |-> intercept]

\* samples accumulated for one vent and mode
MaxSamples == 3

\* open percents and observed rates (degrees per minute) of the samples
SampleChoices == [x : {25, 50, 100}, y : {RatInt(0), Rat(1, 10), Rat(1, 2)}]

\* no sample yet: args is the list of the samples, result the sums
InitFit ==
    /\ af_mode = "heating"
    /\ af_temps = <<>>
    /\ af_input = <<>>
    /\ af_conv = 0
    /\ af_result = NoResult
    /\ af_pc = "off"
    /\ dab_call = [fn |-> "_get_model_params", args |-> <<>>, result |-> NoModel,
                   done |-> FALSE]
    /\ EnvInit
    /\ CoordinatorInit

\* a finalize adds the sample of its cycle to the sums
AddSample(sample) ==
    /\ dab_call.fn = "_get_model_params"
    /\ Len(dab_call.args) < MaxSamples
    /\ dab_call' = [dab_call EXCEPT
          !.args = Append(@, sample),
          !.result = AddObservation(@, sample.x, sample.y)]
    /\ UNCHANGED <<af_mode, af_temps, af_input, af_conv, af_result, af_pc, env_vars,
                   coord_vars>>

NextFit == \E sample \in SampleChoices : AddSample(sample)

SpecFit == InitFit /\ [][NextFit]_vars

\* the least-squares line through the samples themselves:
\* slope = sum (x - mx)(y - my) / sum (x - mx)^2, intercept = my - slope mx
LeastSquares(samples) ==
    LET n == Len(samples)
        mx == Rat(SeqSum([i \in 1..n |-> samples[i].x]), n)
        RECURSIVE Sum(_, _)
        Sum(f, i) == IF i = 0 THEN RatInt(0) ELSE RatAdd(f[i], Sum(f, i - 1))
        my == RatDiv(Sum([i \in 1..n |-> samples[i].y], n), RatInt(n))
        dx == [i \in 1..n |-> RatSub(RatInt(samples[i].x), mx)]
        sxy == Sum([i \in 1..n |-> RatMul(dx[i], RatSub(samples[i].y, my))], n)
        sxx == Sum([i \in 1..n |-> RatMul(dx[i], dx[i])], n)
        slope == RatDiv(sxy, sxx)
    IN [slope |-> slope, intercept |-> RatSub(my, RatMul(slope, mx))]

\* C31: for the sums accumulated from any sequence of samples the fit is
\* None exactly when there are fewer than 2 samples or all samples have the
\* same open percent; otherwise it is the least-squares slope and intercept
\* of the samples.
C31_FitIsLeastSquaresOrNone ==
    dab_call.fn = "_get_model_params" =>
        LET samples == dab_call.args
            degenerate == \/ Len(samples) < 2
                          \/ \A i, j \in 1..Len(samples) : samples[i].x = samples[j].x
        IN IF degenerate THEN get_model_params(dab_call.result) = NoParams
           ELSE get_model_params(dab_call.result) = LeastSquares(samples)

\* three samples at different open percents with rates that grow with the
\* opening give a positive slope
C31_FittedPositiveSlope ==
    /\ dab_call.fn = "_get_model_params"
    /\ Len(dab_call.args) = 3
    /\ dab_call.args[1].x # dab_call.args[2].x
    /\ get_model_params(dab_call.result) # NoParams
    /\ get_model_params(dab_call.result).slope.n > 0


\* ------------------------------------------------------------------------
\* Calls of round_to_nearest_multiple with values from -30.0 to 30.0 in
\* steps of a tenth and a positive granularity

MaxRoundedValue == 300

GranularityChoices == {1, 2, 5, 10}

InitRound ==
    /\ af_mode = "heating"
    /\ af_temps = <<>>
    /\ af_input = <<>>
    /\ af_conv = 0
    /\ af_result = NoResult
    /\ af_pc = "off"
    /\ \E value \in (-MaxRoundedValue)..MaxRoundedValue : \E g \in GranularityChoices :
          dab_call = [fn |-> "round_to_nearest_multiple",
                      args |-> [value |-> value, granularity |-> g],
                      result |-> None, done |-> FALSE]
    /\ EnvInit
    /\ CoordinatorInit

RoundCall ==
    /\ dab_call.fn = "round_to_nearest_multiple"
    /\ ~dab_call.done
    /\ dab_call' = [dab_call EXCEPT
          !.result = round_to_nearest_multiple(dab_call.args.value,
                                               dab_call.args.granularity),
          !.done = TRUE]
    /\ UNCHANGED <<af_mode, af_temps, af_input, af_conv, af_result, af_pc, env_vars,
                   coord_vars>>

NextRound == RoundCall

SpecRound == InitRound /\ [][NextRound]_vars

\* C32: for a granularity g > 0, round_to_nearest_multiple(x, g) is a
\* multiple of g, rounding it again with g returns it unchanged, and a value
\* exactly half-way between two multiples is rounded away from zero.
C32_RoundsToMultipleTiesAway ==
    (dab_call.fn = "round_to_nearest_multiple" /\ dab_call.done) =>
        LET x == dab_call.args.value
            g == dab_call.args.granularity
            r == dab_call.result
        IN /\ r % g = 0
           /\ round_to_nearest_multiple(10 * r, g) = r
           /\ x % (10 * g) = 5 * g
                 => 10 * r = IF x > 0 THEN x + 5 * g ELSE x - 5 * g

\* -12.5 was rounded with granularity 5 to -15
C32_NegativeTieRounded ==
    /\ dab_call.fn = "round_to_nearest_multiple"
    /\ dab_call.done
    /\ dab_call.args = [value |-> -125, granularity |-> 5]
    /\ dab_call.result = -15


\* ------------------------------------------------------------------------
\* Token management of the API client (api.py:46-132), at await
\* granularity.  The server answers every request with a status of its own
\* choosing.

\* a token lives expires_in - 60 seconds (api.py:103-105)
TokenLifetime == 30

\* the check of api.py:49-51
token_valid(api) ==
    /\ api.access_token # 0
    /\ api.token_expires_at # None
    /\ now < api.token_expires_at

\* api.py:116-120 and 122-128: the headers are built with the cached token
\* and the request is sent
send_request(api, k) ==
    [api EXCEPT !.req[k] = [pc |-> "await_response", header |-> api.access_token]]

\* _async_request is called (api.py:113-115) and reaches async_authenticate
RequestStart(k) ==
    /\ flair_api.req[k].pc = "idle"
    /\ Commit([Cur EXCEPT !.flair_api.req[k].pc = "auth"])
    /\ UNCHANGED <<af_vars, env_vars>>

\* async_authenticate gets _auth_lock (api.py:48): with a valid token it
\* returns and the request is sent, otherwise it posts a token request and
\* keeps the lock while it waits for the answer
AuthEnter(k) ==
    /\ flair_api.req[k].pc = "auth"
    /\ flair_api.auth_lock = 0
    /\ Commit([Cur EXCEPT !.flair_api =
                  IF token_valid(flair_api) THEN send_request(flair_api, k)
                  ELSE [flair_api EXCEPT !.auth_lock = k, !.req[k].pc = "await_token"]])
    /\ UNCHANGED <<af_vars, env_vars>>

\* the token response arrives: with a token it is cached with its expiry
\* (api.py:99-105), the lock is released and the request is sent; without
\* one async_authenticate raises and the request is given up
TokenResponse(k, ok) ==
    /\ flair_api.req[k].pc = "await_token"
    /\ ok => flair_api.issued < MaxTokens
    /\ Commit([Cur EXCEPT !.flair_api =
                  IF ok
                  THEN send_request([flair_api EXCEPT
                                        !.access_token = flair_api.issued + 1,
                                        !.issued = @ + 1,
                                        !.token_expires_at = now + TokenLifetime,
                                        !.auth_lock = 0], k)
                  ELSE [flair_api EXCEPT !.auth_lock = 0, !.req[k] = NoRequest]])
    /\ UNCHANGED <<af_vars, env_vars>>

\* api.py:130-164 for a response of the given status: 401 and 403 clear
\* the cached token, 429 sleeps before the retry, everything else ends the
\* request
handle_response(api, k, status) ==
    IF status \in {401, 403}
    THEN [api EXCEPT !.access_token = 0, !.rejected = @ \cup {api.req[k].header},
                     !.req[k] = NoRequest]
    ELSE IF status = 429 /\ api.req[k].pc = "await_response"
    THEN [api EXCEPT !.req[k].pc = "retry_sleep"]
    ELSE [api EXCEPT !.req[k] = NoRequest]

\* the response to the request, or to its retry, arrives
Response(k, status) ==
    /\ flair_api.req[k].pc \in {"await_response", "await_retry"}
    /\ Commit([Cur EXCEPT !.flair_api = handle_response(flair_api, k, status)])
    /\ UNCHANGED <<af_vars, env_vars>>

\* asyncio.sleep(wait_for) is over and _do_request is called again with the
\* headers of the first attempt (api.py:139-140)
RetrySend(k) ==
    /\ flair_api.req[k].pc = "retry_sleep"
    /\ Commit([Cur EXCEPT !.flair_api.req[k].pc = "await_retry"])
    /\ UNCHANGED <<af_vars, env_vars>>

NextToken ==
    \/ \E step \in {30} : Tick(step)
    \/ \E k \in 1..MaxRequests : RequestStart(k)
    \/ \E k \in 1..MaxRequests : AuthEnter(k)
    \/ \E k \in 1..MaxRequests : \E ok \in BOOLEAN : TokenResponse(k, ok)
    \/ \E k \in 1..MaxRequests : \E status \in {200, 401, 429, 500} : Response(k, status)
    \/ \E k \in 1..MaxRequests : RetrySend(k)

SpecToken == Init /\ [][NextToken]_vars

\* request k is put on the wire by this step
Sends(k) ==
    /\ flair_api'.req[k].pc \in {"await_response", "await_retry"}
    /\ flair_api.req[k].pc \notin {"await_response", "await_retry"}

\* C33: a token request is sent only when no token is held or the held
\* token has reached its expiry, also by a caller that waited for the auth
\* lock; a 401/403 response clears the cached token, so that the next
\* request authenticates before it is sent; and no request is sent with a
\* token for which a 401/403 response came back before.
C33_TokenManagement ==
    [][\A k \in 1..MaxRequests :
          /\ (flair_api'.req[k].pc = "await_token" /\ flair_api.req[k].pc # "await_token")
                => ~token_valid(flair_api)
          /\ (\E status \in {401, 403} :
                 /\ flair_api.req[k].pc \in {"await_response", "await_retry"}
                 /\ flair_api' = handle_response(flair_api, k, status))
                => flair_api'.access_token = 0
          /\ Sends(k) => /\ flair_api'.req[k].header # 0
                         /\ flair_api'.req[k].header \notin flair_api.rejected]_vars


\* ------------------------------------------------------------------------
\* The optimistic state of a vent cover (cover.py:53-112)

\* the pending window of cover.py:82, in seconds
PendingWindow == 30

\* _handle_coordinator_update that always takes the coordinator's percent
handle_coordinator_update_at_once(cv, percent) ==
    [cv EXCEPT !.percent = percent,
               !.pending_position = None, !.pending_until = None,
               !.attr_current_cover_position = IF percent # None THEN percent ELSE @]

\* _handle_coordinator_update (cover.py:94-112) when coordinator.data
\* reports percent for the vent
handle_coordinator_update(cv, percent) ==
    LET seen == [cv EXCEPT !.percent = percent]
        cleared == [seen EXCEPT !.pending_position = None, !.pending_until = None]
        taken == [cleared EXCEPT !.attr_current_cover_position =
                     IF percent # None THEN percent ELSE @]
    IN IF cv.pending_position # None /\ cv.pending_until # None
       THEN IF now >= cv.pending_until THEN taken
            ELSE IF percent # None /\ percent = cv.pending_position THEN taken
            ELSE seen
       ELSE [seen EXCEPT !.attr_current_cover_position =
                IF percent # None THEN percent ELSE @]

\* the value of current_cover_position (cover.py:53-67) at time at
current_cover_position(cv, at) ==
    IF cv.pending_position # None /\ cv.pending_until # None /\ at < cv.pending_until
    THEN cv.pending_position
    ELSE IF cv.attr_current_cover_position # None THEN cv.attr_current_cover_position
    ELSE cv.percent

\* async_set_cover_position (cover.py:76-86) up to its first await
SetCoverPosition(position) ==
    /\ Commit([Cur EXCEPT !.cover =
                  [@ EXCEPT !.pending_position = position,
                            !.pending_until = now + PendingWindow,
                            !.attr_current_cover_position = position,
                            !.commanded = position,
                            !.commanded_until = now + PendingWindow,
                            !.released = FALSE,
                            !.updated = FALSE]])
    /\ UNCHANGED <<af_vars, env_vars>>

\* the coordinator finished a refresh and calls the listener of the entity
CoverUpdate(percent) ==
    /\ Commit([Cur EXCEPT !.cover =
                  [handle_coordinator_update(cover, percent) EXCEPT
                      !.updated = TRUE,
                      !.released = \/ @
                                   \/ /\ cover.commanded # None
                                      /\ \/ percent = cover.commanded
                                         \/ now >= cover.commanded_until]])
    /\ UNCHANGED <<af_vars, env_vars>>

\* current_cover_position is read: an expired pending position is dropped
\* (cover.py:55-59)
ReadPosition ==
    /\ cover.pending_position # None
    /\ cover.pending_until # None
    /\ now >= cover.pending_until
    /\ Commit([Cur EXCEPT !.cover.pending_position = None, !.cover.pending_until = None])
    /\ UNCHANGED <<af_vars, env_vars>>

NextCover ==
    \/ \E step \in {10, 30} : Tick(step)
    \/ \E position \in {0, 57} : SetCoverPosition(position)
    \/ \E percent \in {None, 0, 20, 57} : CoverUpdate(percent)
    \/ ReadPosition

SpecCover == Init /\ [][NextCover]_vars

\* this step is the first update after the window of the latest
\* async_set_cover_position expired, nothing having released it before
FirstUpdateAfterExpiry ==
    /\ \E percent \in {None, 0, 20, 57} : CoverUpdate(percent)
    /\ cover.commanded # None
    /\ ~cover.released
    /\ now >= cover.commanded_until

\* the position commanded last is reported as long as no update released it
ReportsCommanded(cv, at) ==
    (cv.commanded # None /\ ~cv.released) => current_cover_position(cv, at) = cv.commanded

\* C34 as stated: after async_set_cover_position(p) the entity reports p
\* until a coordinator update reports percent-open p or arrives after the
\* 30-second window; an update inside the window with another percent does
\* not change the reported position; the first update after the window
\* makes the entity report the coordinator's percent.
C34_OptimisticPosition ==
    [][/\ ReportsCommanded(cover', now')
       /\ FirstUpdateAfterExpiry => current_cover_position(cover', now') = cover'.percent]_vars

\* C34 amended: the same, the first update after the window making the
\* entity report the coordinator's percent when the snapshot has a
\* percent-open for the vent.
C34_OptimisticPositionWhenReported ==
    [][/\ ReportsCommanded(cover', now')
       /\ (FirstUpdateAfterExpiry /\ cover'.percent # None)
             => current_cover_position(cover', now') = cover'.percent]_vars

\* an update inside the window reported another percent than the commanded
\* 57 and the entity still reports 57
C34_KeptAgainstUpdate ==
    /\ cover.commanded = 57
    /\ ~cover.released
    /\ cover.updated
    /\ cover.percent = 20
    /\ now < cover.commanded_until
    /\ now > cover.commanded_until - PendingWindow
    /\ current_cover_position(cover, now) = 57


\* ------------------------------------------------------------------------
\* A cycle that starts while the finalize of the cycle before is pending

\* this step observes t going from idle to running
StartObserved(t) ==
    /\ Observes(t)
    /\ hvac[t] \in Active
    /\ last_hvac_action[t] \notin Active

\* this step runs the finalize task of an earlier cycle of t while a later
\* cycle of t has its CycleState
StaleFinalizeRuns(t) ==
    \E s \in 1..MaxSlots :
        /\ tasks[t][s].pc = "finalize"
        /\ tasks'[t][s] = NoTask
        /\ dab_state[t] # NoCycle
        /\ tasks[t][s].cycle < dab_state[t].cycle

\* max_running_minutes of t after a finalize that ran on a cycle started at
\* started_running
RunningMinutesAfter(t, started_running) ==
    rolling_average(IF max_running_minutes[t] = NoneRat
                    THEN Rat(max_minutes_to_setpoint, 60)
                    ELSE max_running_minutes[t],
                    Rat(now - started_running, 60), RatInt(1), 6)

\* C35: a cycle that starts for a thermostat while the finalize of its
\* previous cycle is pending creates the new CycleState and cancels
\* nothing; the old finalize, when it runs, consumes the CycleState of the
\* new cycle, computes with the start timestamp of the new cycle and
\* changes the learned state; the CycleState is not created again while the
\* thermostat is seen running, so the off-observation that ends the new
\* cycle finds none.
C35_OldFinalizeConsumesNewCycle ==
    [][\A t \in Thermostats :
          /\ (StartObserved(t) /\ PendingTasks(t) # {})
                => /\ dab_state'[t] # NoCycle
                   /\ dab_state'[t].cycle = cycle_no[t] + 1
                   /\ dab_state'[t].started_running = now
                   /\ \A s \in PendingTasks(t) :
                         \/ tasks'[t][s] # NoTask
                         \/ tasks[t][s].pc = "finalize"
                   /\ t \in pending_finalize => t \in pending_finalize'
          /\ StaleFinalizeRuns(t)
                => /\ dab_state'[t] = NoCycle
                   /\ max_running_minutes'[t] =
                         RunningMinutesAfter(t, dab_state[t].started_running)
                   /\ OwnLearnedOfNext(t) # OwnLearnedOf(t)
          /\ (last_hvac_action[t] \in Active /\ dab_state[t] = NoCycle)
                => dab_state'[t] = NoCycle]_vars

\* C35 witness: the finalize of the first cycle of t1 consumed the
\* CycleState of the second while it ran, and the off-observation of the
\* second cycle, finding no CycleState, scheduled a finalize for none
C35_SecondCycleFoundNoState ==
    /\ cycle_no["t1"] = 2
    /\ last_hvac_action["t1"] = "none"
    /\ dab_state["t1"] = NoCycle
    /\ max_running_minutes["t1"] # NoneRat
    /\ \E s \in 1..MaxSlots : tasks["t1"][s].pc = "sleep" /\ tasks["t1"][s].cycle = 0


\* ------------------------------------------------------------------------
\* A finalize that finds no CycleState

\* C36: a finalize that runs for a thermostat with no live CycleState
\* changes no per-vent rate, regression statistic, global ceiling,
\* max_running_minutes value or strategy metric (and writes nothing to the
\* store), so a second finalize of a cycle adds nothing to the first.
C36_FinalizeWithoutCycleChangesNothing ==
    [][\A t \in Thermostats :
          (FinalizeRuns(t) /\ dab_state[t] = NoCycle)
          => /\ vent_rates' = vent_rates
             /\ vent_models' = vent_models
             /\ max_rates' = max_rates
             /\ max_running_minutes' = max_running_minutes
             /\ strategy_metrics' = strategy_metrics
             /\ store' = store
             /\ dab_state' = dab_state
             /\ cycle_stats' = cycle_stats]_vars

\* C36 witness: after the finalize of the first cycle of t1 had consumed
\* the CycleState of the second, the finalize of the second cycle ran and
\* found none
C36_SecondFinalizeFoundNothing ==
    /\ "t1" \in empty_finalizes
    /\ cycle_no["t1"] = 2
    /\ max_running_minutes["t1"] # NoneRat
    /\ dab_state["t1"] = NoCycle
    /\ \A s \in 1..MaxSlots : tasks["t1"][s] = NoTask


\* ------------------------------------------------------------------------
\* Adjustment passes outside a poll: async_run_dab and _async_pre_adjust call
\* _async_apply_dab_adjustments with self.data while a poll may be awaiting
\* the vent API

\* run_dab and pre-adjust handlers that run in a behaviour
MaxDirect == 2

\* vent_pre_adjust_threshold (dab.py:15) is 0.2 degree: two tenths
vent_pre_adjust_threshold == 2

\* should_pre_adjust (dab.py:71-81)
should_pre_adjust(hvac_mode, setpoint, current_temp) ==
    IF hvac_mode = "cooling"
    THEN current_temp + setpoint_offset - vent_pre_adjust_threshold >= setpoint
    ELSE IF hvac_mode = "heating"
    THEN current_temp - setpoint_offset + vent_pre_adjust_threshold <= setpoint
    ELSE FALSE

\* Lines 1011-1023 after the loop of a pass outside a poll
end_direct(c) ==
    LET t == c.direct.cur
        ps == c.direct.ps
        old == IF c.cycle_stats[t].present THEN c.cycle_stats[t]
               ELSE [present |-> TRUE, adjustments |-> 0, movement |-> 0,
                     strategy |-> control_strategy]
    IN [c EXCEPT
         !.cycle_stats[t] = [old EXCEPT !.adjustments = @ + ps.changed,
                                        !.movement = @ + ps.movement,
                                        !.strategy = control_strategy],
         !.direct.ps.ended = TRUE,
         !.direct.pc = "idle"]

\* the loop of coordinator.py:986-1009 of a pass outside a poll, from where
\* it is to its next await of async_set_vent_position or to its end
RECURSIVE advance_direct(_)
advance_direct(c) ==
    LET d == c.direct
    IN IF d.queue = <<>> THEN end_direct(c)
       ELSE LET v == Head(d.queue)
                tr == round_to_nearest_multiple(d.ps.targets[v], granularity)
            IN IF ~GateCommands(d.ps, d.data, c.vent_last_commanded[v], v)
               THEN advance_direct([c EXCEPT !.direct.queue = Tail(@)])
               ELSE [c EXCEPT
                       !.direct.ps.changed = @ + 1,
                       !.direct.ps.movement = @ + Abs(tr - d.data.open[v]),
                       !.direct.queue = Tail(@),
                       !.direct.inflight = v,
                       !.direct.pc = "await_api",
                       !.direct.calls = Append(@, [vent |-> v, percent |-> tr])]

\* a handler outside a poll starts: one more, nothing of the one before
called_direct(c, kind, t) ==
    [c EXCEPT !.direct = [@ EXCEPT !.n = @ + 1, !.kind = kind, !.cur = t,
                                   !.pc = "idle", !.data = NoData, !.ps = NoPass,
                                   !.queue = <<>>, !.inflight = "none",
                                   !.calls = <<>>]]

\* _async_apply_dab_adjustments (coordinator.py:831-1009) called with
\* self.data by async_run_dab (line 637) or _async_pre_adjust (line 589),
\* up to its first await; tg are the targets lines 885-981 compute
apply_direct(c, t, hvac_action, tg) ==
    LET setpoint == get_thermostat_setpoint(t, hvac_action)
    IN IF setpoint = None THEN c
       ELSE advance_direct(
              [c EXCEPT
                 !.vent_rates = SeedRates(@, t, hvac_action),
                 !.direct.pc = "run",
                 !.direct.data = c.data,
                 !.direct.queue = grouped(t),
                 !.direct.ps =
                    [ran |-> TRUE, ended |-> FALSE, hvac_action |-> hvac_action,
                     setpoint |-> setpoint, now |-> now,
                     targets |-> [v \in Vents |->
                                    IF ThermostatOf(v) # t THEN None
                                    ELSE IF c.data.temp[v] = None /\ c.data.active[v]
                                    THEN 1000
                                    ELSE tg[v]],
                     last_before |-> c.vent_last_commanded,
                     changed |-> 0, movement |-> 0,
                     target_before |-> c.vent_last_target,
                     stats_before |-> c.cycle_stats[t]]])

\* async_run_dab (coordinator.py:606-637) for thermostat_entity t, self.data
\* being there
run_dab(c, t, tg) ==
    IF ~c.dab_enabled THEN c
    ELSE IF hvac[t] \notin Active THEN c
    ELSE apply_direct(c, t, hvac[t], tg)

\* _async_handle_pre_adjust (coordinator.py:498-571) and _async_pre_adjust
\* (573-589) for an event of thermostat t whose new state has HVAC mode
\* hvac_mode and current temperature current_temp, self.data being there
handle_pre_adjust(c, t, hvac_mode, current_temp, tg) ==
    LET predicted == IF hvac_mode = "cool" THEN "cooling"
                     ELSE IF hvac_mode = "heat" THEN "heating" ELSE "none"
        setpoint == get_thermostat_setpoint(t, predicted)
    IN IF ~c.dab_enabled THEN c
       ELSE IF hvac[t] \in Active THEN [c EXCEPT !.direct.pre_adjust_flags[t] = FALSE]
       ELSE IF current_temp = None \/ predicted = "none" \/ setpoint = None THEN c
       ELSE IF ~should_pre_adjust(predicted, setpoint, current_temp)
       THEN [c EXCEPT !.direct.pre_adjust_flags[t] = FALSE]
       ELSE IF c.direct.pre_adjust_flags[t] THEN c
       ELSE apply_direct([c EXCEPT !.direct.pre_adjust_flags[t] = TRUE], t, predicted, tg)

\* the run_dab service is called for thermostat t (services.py:156)
RunDab(t, tg) ==
    /\ direct.pc = "idle"
    /\ direct.n < MaxDirect
    /\ dab_enabled => data.loaded
    /\ Commit(run_dab(called_direct(Cur, "run_dab", t), t, tg))
    /\ UNCHANGED <<af_vars, env_vars>>

\* a state-change event of thermostat t reaches _handle_thermostat_event
\* (coordinator.py:474-478)
PreAdjust(t, hvac_mode, current_temp, tg) ==
    /\ t \in unsub_thermostat_listeners
    /\ hvac[t] # "unavailable"
    /\ direct.pc = "idle"
    /\ direct.n < MaxDirect
    /\ dab_enabled => data.loaded
    /\ Commit(handle_pre_adjust(called_direct(Cur, "pre_adjust", t), t, hvac_mode,
                                current_temp, tg))
    /\ UNCHANGED <<af_vars, env_vars>>

\* async_set_vent_position returns to the pass outside a poll
\* (coordinator.py:1008-1009)
DirectApiReturn ==
    /\ direct.pc = "await_api"
    /\ Commit(advance_direct(
                 [Cur EXCEPT !.vent_last_commanded[direct.inflight] = direct.ps.now,
                             !.vent_last_target[direct.inflight] =
                                 direct.calls[Len(direct.calls)].percent,
                             !.direct.inflight = "none"]))
    /\ UNCHANGED <<af_vars, env_vars>>

\* Readings for overlapping passes while heating towards 20.7 degrees: for
\* v1 a large change, no change, and a change with a temperature error over
\* the threshold
OverlapReadings ==
    [v \in Vents |->
        IF v = "v1"
        THEN {Reading(50, 205, TRUE, 1000), Reading(50, 205, TRUE, 500),
              Reading(50, 195, TRUE, 525)}
        ELSE {Reading(0, 205, TRUE, 0)}]

\* the targets a pass outside a poll computes
OverlapTargets == {inp.tg : inp \in PollInputs(OverlapReadings)}

NextOverlap ==
    \/ \E step \in {30} : Tick(step)
    \/ \E t \in {"t1"} : \E a \in {"heating", "none"} : ThermostatChange(t, a)
    \/ \E inp \in PollInputs(OverlapReadings) : PollTimer(inp.d, inp.tg)
    \/ ApiReturn
    \/ \E t \in {"t1"} : \E tg \in OverlapTargets : RunDab(t, tg)
    \/ \E t \in {"t1"} : \E hvac_mode \in {"heat", "off"} : \E current_temp \in {None, 195, 210} :
          \E tg \in OverlapTargets : PreAdjust(t, hvac_mode, current_temp, tg)
    \/ DirectApiReturn

SpecOverlap == InitGate /\ [][NextOverlap]_vars

\* the pass of the latest poll for vent v commanded it
PollCommanded(v) == \E i \in 1..Len(api_calls) : api_calls[i].vent = v

\* the latest pass outside a poll commanded vent v
DirectCommanded(v) == \E i \in 1..Len(direct.calls) : direct.calls[i].vent = v

\* an override condition held for vent v in pass ps, which worked on snapshot d
OverrideHeld(ps, d, v) ==
    \/ Override(ps.hvac_action, ps.setpoint, PassTemp(d, ps.setpoint, v))
    \/ SafetyOverride(d.active[v], round_to_nearest_multiple(ps.targets[v], granularity))

\* C37: for a vent with no override condition, no adjustment pass that
\* started less than min_adjustment_interval after the start of another
\* pass in which the vent was commanded commands the vent, however poll
\* passes, pre-adjust passes and run_dab passes interleave.  (Stated for the
\* pass of the latest poll and the latest pass outside a poll.)
C37_DebounceAcrossPasses ==
    \A v \in Vents :
        (PollCommanded(v) /\ DirectCommanded(v))
        => LET pp == poll.passes[ThermostatOf(v)]
               dp == direct.ps
           IN /\ (dp.now >= pp.now /\ dp.now - pp.now < min_adjust_interval * 60)
                    => OverrideHeld(dp, direct.data, v)
              /\ (pp.now >= dp.now /\ pp.now - dp.now < min_adjust_interval * 60)
                    => OverrideHeld(pp, poll.data, v)


\* ------------------------------------------------------------------------
\* The mode a finalize learns for

\* One thermostat that heats, cools and idles, long enough for the finalize
\* of a cycle whose mode was seen to change: the calls of the API return,
\* the coordinator is not shut down
NextModes ==
    \/ \E step \in {30} : TickLong(step)
    \/ \E t \in {"t1"} : \E a \in {"heating", "cooling", "none"} : ThermostatChange(t, a)
    \/ \E inp \in PollInputs(CycleReadings) : PollTimer(inp.d, inp.tg)
    \/ ApiReturn
    \/ \E t \in Thermostats : \E s \in 1..MaxSlots : TaskRefreshDebounced(t, s)
    \/ \E t \in Thermostats : \E s \in 1..MaxSlots :
          \E inp \in PollInputs(CycleReadings) : TaskRefreshPoll(t, s, inp.d, inp.tg)
    \/ \E t \in Thermostats : \E s \in 1..MaxSlots : TaskFinalize(t, s)

SpecModes == Init /\ [][NextModes]_vars

\* C38: at every finalize that consumes a CycleState, the mode whose
\* per-vent rates and regression statistics are updated is the mode
\* recorded in that CycleState when the cycle started, a thermostat seen
\* going from heating to cooling (or back) with no idle observation in
\* between included.  (Stated for a finalize that consumes the CycleState
\* of the cycle whose end scheduled it.)
C38_FinalizeLearnsCycleMode ==
    [][\A t \in Thermostats : \A s \in 1..MaxSlots :
          (FinalizeStep(t, s) /\ tasks[t][s].cycle = dab_state[t].cycle)
          => RateProp(tasks[t][s].hvac_action) = dab_state[t].mode]_vars


\* ------------------------------------------------------------------------
\* The percent of the commands of a pass

\* round_to_nearest_multiple (dab.py:40-48) of the non-negative percent
\* num / den
round_fraction_to_multiple(num, den, g) ==
    IF g <= 0 THEN (2 * num + den) \div (2 * den)
    ELSE ((2 * num + g * den) \div (2 * g * den)) * g

\* the percent every vent reports in the snapshot of the pass
CurrentOpen == 50

\* Lines 976-1007 of _async_apply_dab_adjustments for targets (the targets
\* of lines 885-974) with every override holding: the percents of the
\* commands the pass emits, vent by vent, None where it emits none
pass_commands(temps, mode, targets, conventional, g) ==
    LET adjusted == adjust_for_minimum_airflow(temps, mode, targets, conventional).targets
    IN [i \in 1..Len(targets) |->
          LET target_rounded == round_fraction_to_multiple(adjusted[i], Scale(temps), g)
          IN IF target_rounded = CurrentOpen THEN None ELSE target_rounded]

InitCommands ==
    /\ af_mode \in Modes
    /\ af_conv \in 0..MaxConventional
    /\ \E n \in 0..MaxManagedVents : \E inp \in AirflowInputs(n) :
          /\ af_temps = inp[1]
          /\ af_input = inp[2]
    /\ af_result = NoResult
    /\ af_pc = "off"
    /\ \E g \in GranularityChoices :
          dab_call = [fn |-> "pass_commands", args |-> <<g>>, result |-> <<>>,
                      done |-> FALSE]
    /\ EnvInit
    /\ CoordinatorInit

CommandsCall ==
    /\ dab_call.fn = "pass_commands"
    /\ ~dab_call.done
    /\ dab_call' = [dab_call EXCEPT
                      !.result = pass_commands(af_temps, af_mode, af_input, af_conv,
                                               dab_call.args[1]),
                      !.done = TRUE]
    /\ UNCHANGED <<af_mode, af_temps, af_input, af_conv, af_result, af_pc, env_vars,
                   coord_vars>>

NextCommands == CommandsCall

SpecCommands == InitCommands /\ [][NextCommands]_vars

InitDisabled == AirflowIdle /\ EnvInit /\ CoordinatorSetUp(FALSE)

NextDisabled ==
    \/ \E step \in {30} : Tick(step)
    \/ \E t \in {"t1"} : \E a \in {"heating", "cooling", "none"} : ThermostatChange(t, a)
    \/ \E inp \in PollInputs(OverlapReadings) : PollTimer(inp.d, inp.tg)
    \/ \E t \in {"t1"} : \E tg \in OverlapTargets : RunDab(t, tg)
    \/ \E t \in {"t1"} : \E hvac_mode \in {"heat", "off"} : \E current_temp \in {None, 195, 210} :
          \E tg \in OverlapTargets : PreAdjust(t, hvac_mode, current_temp, tg)

SpecDisabled == InitDisabled /\ [][NextDisabled]_vars

\* C40: while dab_enabled is false no poll, no thermostat state-change
\* event and no run_dab call results in a call to set a vent position (none
\* is emitted, none is awaited, no vent has a last command), and no HVAC
\* cycle state is created.
C40_DisabledCommandsNothing ==
    ~dab_enabled
    => /\ api_calls = <<>>
       /\ direct.calls = <<>>
       /\ poll.pc # "await_api"
       /\ direct.pc # "await_api"
       /\ \A v \in Vents : vent_last_commanded[v] = None /\ vent_last_target[v] = None
       /\ \A t \in Thermostats :
             /\ dab_state[t] = NoCycle
             /\ cycle_stats[t] = NoStats
             /\ cycle_no[t] = 0
             /\ t \notin pending_finalize

\* C40 witness: with dab_enabled false and t1 heating, a poll has fetched a
\* snapshot in which v1 is away from its target, and a thermostat event and
\* a run_dab call have been handled
C40_HandledWhileDisabled ==
    /\ ~dab_enabled
    /\ hvac["t1"] = "heating"
    /\ data.loaded
    /\ data.open["v1"] = 50
    /\ poll.plan["v1"] = 1000
    /\ direct.n = 2
    /\ direct.kind = "run_dab"

====
